---------------------------- MODULE Spec2Model ----------------------------
(***************************************************************************)
(* arr-sync: the declarative reconciler of tools/arr-sync.                 *)
(*                                                                         *)
(* The module models one run of the command line (arr_sync.py) over the    *)
(* resolved desired state (state.py), the planners and the executor        *)
(* (diff.py), the Recyclarr file planner (recyclarr_config.py) and the     *)
(* REST services the clients talk to (arr_client.py, prowlarr_client.py).  *)
(*                                                                         *)
(* Encoding of Python values:                                              *)
(*   - JSON scalars (strings, booleans) are strings ("true", "/movies");   *)
(*     NoneValue is Python's None where a scalar is expected;              *)
(*   - objects (dataclasses, closures) are records; None is Python's None  *)
(*     where an object is expected;                                        *)
(*   - dicts are functions, lists are sequences, an insertion-ordered dict *)
(*     keyed by name is a sequence of records carrying the name.           *)
(***************************************************************************)
EXTENDS Integers, Sequences, FiniteSets, TLC

(***************************************************************************)
(* Bounds of the input domains.                                            *)
(***************************************************************************)
\* longest declared root_folders list
MaxDesired == 2
\* most root folders a live service holds before the run
MaxLive == 2
\* most custom formats / quality profiles the reference service holds
MaxRef == 2

None == [py |-> "None"]
NoneValue == "None"

\* dict.get(k) on a dict of scalars
Get(d, k) == IF k \in DOMAIN d THEN d[k] ELSE NoneValue

Range(s) == {s[i] : i \in DOMAIN s}

\* every enumeration of the finite set S
Perms(S) == {p \in [1..Cardinality(S) -> S] : \A i, j \in 1..Cardinality(S) : p[i] = p[j] => i = j}

\* all sequences over S of length at most n
SeqsUpTo(S, n) == UNION {[1..k -> S] : k \in 0..n}

RECURSIVE Join(_, _)
\* sep.join(parts)
Join(parts, sep) ==
    IF parts = <<>> THEN ""
    ELSE IF Len(parts) = 1 THEN parts[1]
    ELSE parts[1] \o sep \o Join(Tail(parts), sep)

RECURSIVE Flatten(_)
\* the concatenation of a sequence of sequences (list.extend in a loop)
Flatten(ss) == IF ss = <<>> THEN <<>> ELSE Head(ss) \o Flatten(Tail(ss))

(***************************************************************************)
(* diff.py: ActionType and Action.                                         *)
(***************************************************************************)
CREATE == "+"
UPDATE == "~"
NOOP == "="
WARNING == "!"
ActionType == {CREATE, UPDATE, NOOP, WARNING}

\* Action(type, category, name, detail, execute); execute defaults to None
Action(type, category, name, detail, execute) ==
    [type |-> type, category |-> category, name |-> name, detail |-> detail,
     execute |-> execute]


(***************************************************************************)
(* The state of one run.                                                   *)
(***************************************************************************)
VARIABLES
    cli,            \* the command line: [command, user, dry_run]
    doc,            \* the declared document (arr-state.yml), parsed
    docker,         \* container -> the ApiKey in its config.xml ("" when unreadable)
    cache,          \* .arr-sync-cache.yml: container -> cached key
    state,          \* the DesiredState resolve_state returned (None before)
    servers,        \* url -> what the Radarr/Sonarr service at that url holds
    prowlarr_apps,  \* the applications the Prowlarr service holds
    recyclarr_file, \* recyclarr.yml: None when absent, else [radarr, sonarr]
    hash_order,     \* the order in which this process iterates a set of strings
    plan,           \* the ChangePlan (None before planning)
    cf_id_map,      \* target url -> the cf_id_map its reference-sync closures share
    pc,             \* position in the command
    idx,            \* apply_plan: index of the next action in all_actions
    applied,        \* apply_plan: applied
    errors,         \* apply_plan: errors
    success,        \* what apply_plan returned
    exit_code,      \* the process exit status (None while running)
    invoked,        \* indices in all_actions whose execute was called, in call order
    failed,         \* those of them whose execute raised
    raised,         \* TRUE once apply_plan let an exception escape
    confirmed,      \* what click.confirm returned (FALSE before the prompt)
    followups,      \* the follow-up calls made after apply_plan returned
    calls,          \* the kinds of external call the run made so far: "docker"
                    \* (docker exec), "seedr" (validate_credentials), "service"
                    \* (a request of an ArrClient or a ProwlarrClient)
    invocations     \* the processes calling api_key.py step by step on the one
                    \* cache file: each the call it is in and its position there

vars == <<cli, doc, docker, cache, state, servers, prowlarr_apps, recyclarr_file,
          hash_order, plan, cf_id_map, pc, idx, applied, errors, success,
          exit_code, invoked, failed, raised, confirmed, followups, calls,
          invocations>>

(***************************************************************************)
(* arr_client.py: the reads of ArrClient.  A client is named by its url.   *)
(***************************************************************************)
get_download_clients(client) == servers[client].downloadClients
get_root_folders(client) == servers[client].rootFolders
get_custom_formats(client) == servers[client].customFormats
get_quality_profiles(client) == servers[client].qualityProfiles
get_quality_definitions(client) == servers[client].qualityDefinitions
get_naming_config(client) == servers[client].naming
get_media_management(client) == servers[client].mediaManagement

\* iterating a Python set of strings: the process's hash order, restricted to S
SetIter(S) == SelectSeq(hash_order, LAMBDA p : p \in S)

(***************************************************************************)
(* diff.py: the download-client differencer.                               *)
(***************************************************************************)
_build_seedr_payload(seedr) ==
    [name |-> "Seedr", implementation |-> "Seedr",
     configContract |-> "SeedrSettings", enable |-> "true",
     protocol |-> "torrent", priority |-> 1,
     removeCompletedDownloads |-> "true", removeFailedDownloads |-> "true",
     fields |-> << [name |-> "email", value |-> seedr.email],
                   [name |-> "password", value |-> seedr.password],
                   [name |-> "downloadDirectory", value |-> seedr.download_directory],
                   [name |-> "deleteFromCloud", value |-> seedr.delete_from_cloud] >>]

RECURSIVE _get_field_value(_, _)
_get_field_value(fields, name) ==
    IF fields = <<>> THEN NoneValue
    ELSE IF Get(Head(fields), "name") = name THEN Get(Head(fields), "value")
    ELSE _get_field_value(Tail(fields), name)

\* existing.get("fields", [])
FieldsOf(existing) == IF "fields" \in DOMAIN existing THEN existing.fields ELSE <<>>

_seedr_fields_match(existing, desired) ==
    LET fields == FieldsOf(existing) IN
    /\ _get_field_value(fields, "email") = desired.email
    /\ _get_field_value(fields, "password") = desired.password
    /\ _get_field_value(fields, "downloadDirectory") = desired.download_directory
    /\ _get_field_value(fields, "deleteFromCloud") = desired.delete_from_cloud

\* a differencer that lists the differing fields with the password last
SeedrDetailPasswordLast(existing, desired) ==
    LET fields == FieldsOf(existing)
        changes ==
            (IF _get_field_value(fields, "email") # desired.email
             THEN <<"email">> ELSE <<>>)
            \o (IF _get_field_value(fields, "downloadDirectory") # desired.download_directory
                THEN <<"downloadDirectory">> ELSE <<>>)
            \o (IF _get_field_value(fields, "deleteFromCloud") # desired.delete_from_cloud
                THEN <<"deleteFromCloud">> ELSE <<>>)
            \o (IF _get_field_value(fields, "password") # desired.password
                THEN <<"password">> ELSE <<>>)
    IN Join(changes, ", ") \o " changed"

_seedr_diff_detail(existing, desired) ==
    LET fields == FieldsOf(existing)
        changes ==
            (IF _get_field_value(fields, "email") # desired.email
             THEN <<"email">> ELSE <<>>)
            \o (IF _get_field_value(fields, "password") # desired.password
                THEN <<"password">> ELSE <<>>)
            \o (IF _get_field_value(fields, "downloadDirectory") # desired.download_directory
                THEN <<"downloadDirectory">> ELSE <<>>)
            \o (IF _get_field_value(fields, "deleteFromCloud") # desired.delete_from_cloud
                THEN <<"deleteFromCloud">> ELSE <<>>)
    IN Join(changes, ", ") \o " changed"

\* next((c for c in existing_clients if c.get("implementation") == "Seedr"), None)
FirstSeedr(existing_clients) ==
    LET hits == SelectSeq(existing_clients,
                          LAMBDA c : Get(c, "implementation") = "Seedr")
    IN IF hits = <<>> THEN None ELSE Head(hits)

plan_download_client(client, seedr) ==
    LET existing_clients == get_download_clients(client)
        existing_seedr == FirstSeedr(existing_clients)
        payload == _build_seedr_payload(seedr)
    IN  IF existing_seedr = None
        THEN Action(CREATE, "Download client", "Seedr", "will be created",
                    [op |-> "create_download_client", client |-> client,
                     payload |-> payload])
        ELSE IF _seedr_fields_match(existing_seedr, seedr)
        THEN Action(NOOP, "Download client", "Seedr", "up to date", None)
        ELSE Action(UPDATE, "Download client", "Seedr",
                    _seedr_diff_detail(existing_seedr, seedr),
                    [op |-> "update_download_client", client |-> client,
                     id |-> existing_seedr.id, payload |-> payload])

(***************************************************************************)
(* diff.py: the root-folder differencer.                                   *)
(***************************************************************************)
Quoted(path) == "\"" \o path \o "\""

\* a differencer that attaches the creation step to a path that exists, too
StepOnExistingPath(client, existing_paths, path) ==
    Action(IF path \in existing_paths THEN NOOP ELSE CREATE,
           "Root folder", Quoted(path),
           IF path \in existing_paths THEN "exists" ELSE "will be created",
           [op |-> "create_root_folder", client |-> client, path |-> path])

\* the loop over desired_paths (diff.py 188-204)
DesiredPathAction(client, existing_paths, path) ==
    IF path \in existing_paths
    THEN Action(NOOP, "Root folder", Quoted(path), "exists", None)
    ELSE Action(CREATE, "Root folder", Quoted(path), "will be created",
                [op |-> "create_root_folder", client |-> client, path |-> path])

\* a differencer that is silent about the live paths that are not declared
NoExtraPathWarnings(existing_paths, desired_paths) == <<>>

\* the loop over existing_paths, a set (diff.py 207-214)
ExtraPathWarnings(existing_paths, desired_paths) ==
    LET extra == SelectSeq(SetIter(existing_paths),
                           LAMBDA p : p \notin Range(desired_paths))
    IN [i \in 1..Len(extra) |->
          Action(WARNING, "Root folder", Quoted(extra[i]),
                 "exists in API but not in YAML (not removing)", None)]

\* a differencer that emits the creations before the paths that exist
CreationsFirst(client, desired_paths) ==
    LET existing == get_root_folders(client)
        existing_paths == {existing[i].path : i \in DOMAIN existing}
    IN  [i \in 1..Len(SelectSeq(desired_paths, LAMBDA p : p \notin existing_paths)) |->
            DesiredPathAction(client, existing_paths,
                SelectSeq(desired_paths, LAMBDA p : p \notin existing_paths)[i])]
        \o [i \in 1..Len(SelectSeq(desired_paths, LAMBDA p : p \in existing_paths)) |->
            DesiredPathAction(client, existing_paths,
                SelectSeq(desired_paths, LAMBDA p : p \in existing_paths)[i])]
        \o ExtraPathWarnings(existing_paths, desired_paths)

plan_root_folders(client, desired_paths) ==
    LET existing == get_root_folders(client)
        existing_paths == {existing[i].path : i \in DOMAIN existing}
    IN  [i \in 1..Len(desired_paths) |->
            DesiredPathAction(client, existing_paths, desired_paths[i])]
        \o ExtraPathWarnings(existing_paths, desired_paths)

(***************************************************************************)
(* diff.py: reference sync (custom formats, quality profiles, quality      *)
(* definitions, naming, media management).  Each part is the list of the   *)
(* actions its section appends to `actions`.                               *)
(***************************************************************************)
\* d[k] = v on a dict
Put(d, k, v) == [x \in DOMAIN d \cup {k} |-> IF x = k THEN v ELSE d[x]]

EmptyDict == [x \in {} |-> 0]

\* {e["name"]: e for e in entries}: the names, and the entry a name maps to
\* (the last one of that name)
NamesOf(entries) == {entries[i].name : i \in DOMAIN entries}

ByName(entries, name) ==
    LET hits == SelectSeq(entries, LAMBDA e : e.name = name)
    IN hits[Len(hits)]

Count(s, Test(_)) == Len(SelectSeq(s, Test))

RECURSIVE MapExisting(_, _, _)
\* the loop of diff.py 237-242 (and again 266-268) over ref_cfs, on cf_id_map m
MapExisting(ref_cfs, target_cfs, m) ==
    IF ref_cfs = <<>> THEN m
    ELSE LET ref_cf == Head(ref_cfs) IN
         MapExisting(Tail(ref_cfs), target_cfs,
                     IF ref_cf.name \in NamesOf(target_cfs)
                     THEN Put(m, ref_cf.id, ByName(target_cfs, ref_cf.name).id)
                     ELSE m)

\* a planner that builds the id map only when no custom format is missing
CfIdMapOnlyWithoutCreate(target_client, ref_client) ==
    IF \E i \in DOMAIN get_custom_formats(ref_client) :
          get_custom_formats(ref_client)[i].name
              \notin NamesOf(get_custom_formats(target_client))
    THEN EmptyDict
    ELSE MapExisting(get_custom_formats(ref_client),
                     get_custom_formats(target_client), EmptyDict)

\* cf_id_map as plan_reference_sync leaves it when it returns
PlannedCfIdMap(target_client, ref_client) ==
    MapExisting(get_custom_formats(ref_client), get_custom_formats(target_client),
                EmptyDict)

CustomFormatsPart(target_client, ref_client, ref_username) ==
    LET ref_cfs == get_custom_formats(ref_client)
        target_cfs == get_custom_formats(target_client)
        cf_existing == Count(ref_cfs, LAMBDA c : c.name \in NamesOf(target_cfs))
        cf_creates == Count(ref_cfs, LAMBDA c : c.name \notin NamesOf(target_cfs))
    IN  IF cf_creates > 0
        THEN << Action(CREATE, "Custom formats",
                       ToString(cf_creates) \o " from " \o ref_username,
                       ToString(cf_creates) \o " to create, "
                           \o ToString(cf_existing) \o " existing",
                       [op |-> "_sync_custom_formats", client |-> target_client,
                        ref_cfs |-> ref_cfs]) >>
        ELSE << Action(NOOP, "Custom formats", ToString(cf_existing) \o " synced",
                       "from " \o ref_username, None) >>

\* a planner that emits one CREATE per missing quality profile
ProfileActionPerCreate(target_client, ref_client, ref_username) ==
    LET ref_profiles == get_quality_profiles(ref_client)
        target_profiles == get_quality_profiles(target_client)
        missing == SelectSeq(ref_profiles,
                             LAMBDA q : q.name \notin NamesOf(target_profiles))
    IN  IF missing # <<>>
        THEN [i \in 1..Len(missing) |->
                Action(CREATE, "Quality profiles", missing[i].name,
                       "from " \o ref_username,
                       [op |-> "_sync_quality_profiles", client |-> target_client,
                        ref_profiles |-> << missing[i] >>])]
        ELSE << Action(NOOP, "Quality profiles",
                       ToString(Len(ref_profiles)) \o " synced",
                       "from " \o ref_username, None) >>

QualityProfilesPart(target_client, ref_client, ref_username) ==
    LET ref_profiles == get_quality_profiles(ref_client)
        target_profiles == get_quality_profiles(target_client)
        profile_creates ==
            Count(ref_profiles, LAMBDA q : q.name \notin NamesOf(target_profiles))
        profile_noops ==
            Count(ref_profiles, LAMBDA q : q.name \in NamesOf(target_profiles))
        total_profiles == Len(ref_profiles)
    IN  IF profile_creates > 0
        THEN << Action(CREATE, "Quality profiles",
                       ToString(profile_creates) \o " from " \o ref_username,
                       ToString(profile_creates) \o " to create, "
                           \o ToString(profile_noops) \o " existing",
                       [op |-> "_sync_quality_profiles", client |-> target_client,
                        ref_profiles |-> ref_profiles]) >>
        ELSE << Action(NOOP, "Quality profiles",
                       ToString(total_profiles) \o " synced",
                       "from " \o ref_username, None) >>

\* a comparison of the quality definitions by their number only
LengthsDiffer(ref_defs, target_defs) == Len(ref_defs) # Len(target_defs)

\* diff.py 328-337
defs_differ(ref_defs, target_defs) ==
    IF Len(ref_defs) = Len(target_defs)
    THEN \E i \in 1..Len(ref_defs) :
            \/ Get(ref_defs[i], "minSize") # Get(target_defs[i], "minSize")
            \/ Get(ref_defs[i], "maxSize") # Get(target_defs[i], "maxSize")
            \/ Get(ref_defs[i], "preferredSize") # Get(target_defs[i], "preferredSize")
    ELSE TRUE

QualityDefinitionsPart(target_client, ref_client, ref_username) ==
    LET ref_defs == get_quality_definitions(ref_client)
        target_defs == get_quality_definitions(target_client)
    IN  IF defs_differ(ref_defs, target_defs)
        THEN << Action(UPDATE, "Quality definitions", "bulk update",
                       "from " \o ref_username,
                       [op |-> "update_quality_definitions", client |-> target_client,
                        defs |-> ref_defs]) >>
        ELSE << Action(NOOP, "Quality definitions", "up to date",
                       "from " \o ref_username, None) >>

\* the declared keys that may override, with the API key each one sets
naming_field_map ==
    << <<"rename_movies", "renameMovies">>,
       <<"standard_movie_format", "standardMovieFormat">>,
       <<"movie_folder_format", "movieFolderFormat">> >>

naming_keys ==
    <<"renameMovies", "standardMovieFormat", "movieFolderFormat",
      "renameEpisodes", "standardEpisodeFormat", "seasonFolderFormat",
      "seriesFolderFormat", "dailyEpisodeFormat", "animeEpisodeFormat">>

mm_field_map ==
    << <<"recycle_bin", "recycleBin">>,
       <<"delete_empty_folders", "deleteEmptyFolders">> >>

mm_keys ==
    <<"recycleBin", "recycleBinCleanupDays", "deleteEmptyFolders",
      "autoUnmonitorPreviouslyDownloadedMovies">>

RECURSIVE Overlay(_, _, _)
\* for yaml_key, api_key in field_map.items(): if yaml_key in yaml: desired[api_key] = ...
Overlay(desired, yaml, field_map) ==
    IF field_map = <<>> THEN desired
    ELSE LET yaml_key == Head(field_map)[1]
             api_key == Head(field_map)[2]
         IN Overlay(IF yaml_key \in DOMAIN yaml
                    THEN Put(desired, api_key, yaml[yaml_key]) ELSE desired,
                    yaml, Tail(field_map))

\* a desired configuration that ignores the declared overrides
WithoutOverrides(ref, yaml, field_map) == ref

\* dict(ref) overlaid with the declared overrides (an empty yaml dict is falsy)
Desired(ref, yaml, field_map) ==
    IF DOMAIN yaml # {} THEN Overlay(ref, yaml, field_map) ELSE ref

\* any(desired.get(k) != target.get(k) for k in keys if k in desired)
Changed(desired, target, keys) ==
    \E i \in 1..Len(keys) :
        /\ keys[i] \in DOMAIN desired
        /\ Get(desired, keys[i]) # Get(target, keys[i])

\* target.get("id", 1)
IdOr1(target) == IF "id" \in DOMAIN target THEN target.id ELSE 1

NamingPart(target_client, ref_client, ref_username, target_svc) ==
    LET ref_naming == get_naming_config(ref_client)
        target_naming == get_naming_config(target_client)
        desired_naming == Desired(ref_naming, target_svc.naming, naming_field_map)
    IN  IF Changed(desired_naming, target_naming, naming_keys)
        THEN << Action(UPDATE, "Naming config", "will be updated",
                       "from " \o ref_username,
                       [op |-> "update_naming_config", client |-> target_client,
                        config |-> Put(desired_naming, "id", IdOr1(target_naming))]) >>
        ELSE << Action(NOOP, "Naming config", "up to date",
                       "from " \o ref_username, None) >>

MediaManagementPart(target_client, ref_client, ref_username, target_svc) ==
    LET ref_mm == get_media_management(ref_client)
        target_mm == get_media_management(target_client)
        desired_mm == Desired(ref_mm, target_svc.media_management, mm_field_map)
    IN  IF Changed(desired_mm, target_mm, mm_keys)
        THEN << Action(UPDATE, "Media management", "will be updated",
                       "from " \o ref_username,
                       [op |-> "update_media_management", client |-> target_client,
                        config |-> Put(desired_mm, "id", IdOr1(target_mm))]) >>
        ELSE << Action(NOOP, "Media management", "up to date",
                       "from " \o ref_username, None) >>

\* a reference sync that plans the quality profiles before the custom formats
ProfilesBeforeFormats(target_client, ref_client, ref_username, target_svc) ==
    QualityProfilesPart(target_client, ref_client, ref_username)
    \o CustomFormatsPart(target_client, ref_client, ref_username)
    \o QualityDefinitionsPart(target_client, ref_client, ref_username)
    \o NamingPart(target_client, ref_client, ref_username, target_svc)
    \o MediaManagementPart(target_client, ref_client, ref_username, target_svc)

plan_reference_sync(target_client, ref_client, ref_username, target_svc) ==
    CustomFormatsPart(target_client, ref_client, ref_username)
    \o QualityProfilesPart(target_client, ref_client, ref_username)
    \o QualityDefinitionsPart(target_client, ref_client, ref_username)
    \o NamingPart(target_client, ref_client, ref_username, target_svc)
    \o MediaManagementPart(target_client, ref_client, ref_username, target_svc)

(***************************************************************************)
(* diff.py: Prowlarr applications.                                         *)
(***************************************************************************)
\* [("radarr", "Radarr"), ("sonarr", "Sonarr")]
Families == << <<"radarr", "Radarr">>, <<"sonarr", "Sonarr">> >>

\* getattr(user, svc_name)
SvcOf(user, svc_name) == IF svc_name = "radarr" THEN user.radarr ELSE user.sonarr

\* svc and svc.url and svc.api_key
Configured(svc) == svc # None /\ svc.url # "" /\ svc.api_key # ""

AppName(impl, username) == impl \o " (" \o username \o ")"

\* a differencer of applications that looks at the API key only
PlanAppByKey(existing_apps, prowlarr_url, username, impl, svc) ==
    LET app_name == AppName(impl, username) IN
    IF app_name \in NamesOf(existing_apps)
    THEN LET existing == ByName(existing_apps, app_name)
             key_match == _get_field_value(FieldsOf(existing), "apiKey") = svc.api_key
         IN IF key_match
            THEN Action(NOOP, "App", Quoted(app_name), "up to date", None)
            ELSE Action(UPDATE, "App", Quoted(app_name), "apiKey changed",
                        [op |-> "_update_app", name |-> app_name, impl |-> impl,
                         prowlarr_url |-> prowlarr_url, url |-> svc.url,
                         key |-> svc.api_key, id |-> existing.id])
    ELSE Action(CREATE, "App", Quoted(app_name), "will be created",
                [op |-> "_create_app", name |-> app_name, impl |-> impl,
                 prowlarr_url |-> prowlarr_url, url |-> svc.url,
                 key |-> svc.api_key])

\* one iteration of the inner loop of plan_prowlarr_apps (diff.py 458-519)
PlanApp(existing_apps, prowlarr_url, username, impl, svc) ==
    LET app_name == AppName(impl, username) IN
    IF app_name \in NamesOf(existing_apps)
    THEN LET existing == ByName(existing_apps, app_name)
             existing_fields == FieldsOf(existing)
             url_match == _get_field_value(existing_fields, "baseUrl") = svc.url
             key_match == _get_field_value(existing_fields, "apiKey") = svc.api_key
             changes == (IF ~url_match THEN <<"baseUrl">> ELSE <<>>)
                        \o (IF ~key_match THEN <<"apiKey">> ELSE <<>>)
         IN IF url_match /\ key_match
            THEN Action(NOOP, "App", Quoted(app_name), "up to date", None)
            ELSE Action(UPDATE, "App", Quoted(app_name),
                        Join(changes, ", ") \o " changed",
                        [op |-> "_update_app", name |-> app_name, impl |-> impl,
                         prowlarr_url |-> prowlarr_url, url |-> svc.url,
                         key |-> svc.api_key, id |-> existing.id])
    ELSE Action(CREATE, "App", Quoted(app_name), "will be created",
                [op |-> "_create_app", name |-> app_name, impl |-> impl,
                 prowlarr_url |-> prowlarr_url, url |-> svc.url,
                 key |-> svc.api_key])

\* the actions plan_prowlarr_apps appends for one user
PlanUserApps(existing_apps, prowlarr_url, user) ==
    Flatten([f \in 1..Len(Families) |->
        LET svc == SvcOf(user, Families[f][1]) IN
        IF ~Configured(svc) THEN <<>>
        ELSE << PlanApp(existing_apps, prowlarr_url, user.name, Families[f][2], svc) >>])

plan_prowlarr_apps(prowlarr_url, st) ==
    LET existing_apps == prowlarr_apps IN
    Flatten([u \in 1..Len(st.users) |->
                PlanUserApps(existing_apps, prowlarr_url, st.users[u])])

(***************************************************************************)
(* diff.py: plan_service, compute_plan, ChangePlan.                        *)
(***************************************************************************)
\* state.users[name]
UserByName(users, name) == ByName(users, name)

UserNames(users) == NamesOf(users)

\* a plan builder that syncs from a reference block that has no API key
ReferenceWithoutKey(service_type, user, st) ==
    IF user.reference = "" THEN None
    ELSE LET ref_user == UserByName(st.users, user.reference)
             ref_svc == IF service_type = "Radarr" THEN ref_user.radarr
                        ELSE ref_user.sonarr
         IN IF ref_svc # None /\ ref_svc.url # "" THEN ref_svc ELSE None

\* the service the reference sync of one service reads from, or None
ReferenceService(service_type, user, st) ==
    IF user.reference = "" THEN None
    ELSE LET ref_user == UserByName(st.users, user.reference)
             ref_svc == IF service_type = "Radarr" THEN ref_user.radarr
                        ELSE ref_user.sonarr
         IN IF Configured(ref_svc) THEN ref_svc ELSE None

\* diff.py 535-537
DownloadClientPart(client, seedr) ==
    IF seedr # None THEN << plan_download_client(client, seedr) >> ELSE <<>>

\* diff.py 539-541
RootFoldersPart(client, root_folders) ==
    IF root_folders # <<>> THEN plan_root_folders(client, root_folders) ELSE <<>>

\* diff.py 543-551
ReferencePart(service_type, svc, user, st) ==
    LET ref_svc == ReferenceService(service_type, user, st) IN
    IF ref_svc # None
    THEN plan_reference_sync(svc.url, ref_svc.url, user.reference, svc)
    ELSE <<>>

plan_service(service_type, svc, seedr, user, st) ==
    [service_type |-> service_type, url |-> svc.url,
     actions |-> DownloadClientPart(svc.url, seedr)
                 \o RootFoldersPart(svc.url, svc.root_folders)
                 \o ReferencePart(service_type, svc, user, st)]

\* a selection of users that ignores the tenant filter
UnfilteredUsers(st, target_user) == st.users

\* {target_user: state.users[target_user]} if target_user else state.users
UsersToProcess(st, target_user) ==
    IF target_user # NoneValue /\ target_user # ""
    THEN << UserByName(st.users, target_user) >>
    ELSE st.users

\* the body of the loop over users_to_process (diff.py 588-600)
PlanUser(user, st) ==
    [username |-> user.name,
     services |-> Flatten([f \in 1..Len(Families) |->
        LET svc == SvcOf(user, Families[f][1]) IN
        IF Configured(svc)
        THEN << plan_service(Families[f][2], svc, user.seedr, user, st) >>
        ELSE <<>>])]

\* diff.py 560-579
ProwlarrPlanOf(st, target_user) ==
    IF st.prowlarr # None /\ st.prowlarr.url # "" /\ st.prowlarr.api_key # ""
    THEN LET filtered_state == [st EXCEPT !.users = UsersToProcess(st, target_user)]
             prowlarr_actions == plan_prowlarr_apps(st.prowlarr.url, filtered_state)
         IN IF prowlarr_actions # <<>>
            THEN [url |-> st.prowlarr.url, actions |-> prowlarr_actions]
            ELSE None
    ELSE None

compute_plan(st, target_user) ==
    LET users_to_process == UsersToProcess(st, target_user)
        user_plans == [u \in 1..Len(users_to_process) |->
                          PlanUser(users_to_process[u], st)]
    IN [prowlarr |-> ProwlarrPlanOf(st, target_user),
        users |-> SelectSeq(user_plans, LAMBDA up : up.services # <<>>),
        recyclarr |-> None]

\* the cf_id_map created by each plan_reference_sync call of compute_plan, by
\* the url of its target client
PlannedCfIdMaps(st, target_user) ==
    LET users_to_process == UsersToProcess(st, target_user)
        synced == {<<u, f>> \in (1..Len(users_to_process)) \X (1..Len(Families)) :
                     /\ Configured(SvcOf(users_to_process[u], Families[f][1]))
                     /\ ReferenceService(Families[f][2], users_to_process[u], st) # None}
        Url(p) == SvcOf(users_to_process[p[1]], Families[p[2]][1]).url
        Ref(p) == ReferenceService(Families[p[2]][2], users_to_process[p[1]], st).url
    IN [url \in {Url(p) : p \in synced} |->
          LET p == CHOOSE q \in synced : Url(q) = url
          IN PlannedCfIdMap(url, Ref(p))]

\* a plan that lists the tenants' actions before the Prowlarr actions
TenantsBeforeProwlarr(p) ==
    Flatten([u \in 1..Len(p.users) |->
          Flatten([s \in 1..Len(p.users[u].services) |->
              p.users[u].services[s].actions])])
    \o (IF p.prowlarr # None THEN p.prowlarr.actions ELSE <<>>)
    \o (IF p.recyclarr # None THEN p.recyclarr.actions ELSE <<>>)

\* ChangePlan.all_actions
all_actions(p) ==
    (IF p.prowlarr # None THEN p.prowlarr.actions ELSE <<>>)
    \o Flatten([u \in 1..Len(p.users) |->
          Flatten([s \in 1..Len(p.users[u].services) |->
              p.users[u].services[s].actions])])
    \o (IF p.recyclarr # None THEN p.recyclarr.actions ELSE <<>>)

\* ChangePlan.summary
summary(p) ==
    LET acts == all_actions(p) IN
    [creates |-> Count(acts, LAMBDA a : a.type = CREATE),
     updates |-> Count(acts, LAMBDA a : a.type = UPDATE),
     noops |-> Count(acts, LAMBDA a : a.type = NOOP)]

(***************************************************************************)
(* recyclarr_config.py and arr_sync.py: the Recyclarr sub-plan.            *)
(***************************************************************************)
\* the entries generate_recyclarr_config builds for one section, in user order
RecyclarrEntries(st, svc_name) ==
    Flatten([u \in 1..Len(st.users) |->
        LET svc == SvcOf(st.users[u], svc_name) IN
        IF Configured(svc)
        THEN << [name |-> svc_name \o "-" \o st.users[u].name,
                 base_url |-> svc.url, api_key |-> svc.api_key] >>
        ELSE <<>>])

generate_recyclarr_config(st) ==
    [radarr |-> RecyclarrEntries(st, "radarr"),
     sonarr |-> RecyclarrEntries(st, "sonarr")]

\* existing.get(section, {}), of a file that may be absent
ExistingSection(file, section) ==
    IF file = None THEN <<>>
    ELSE IF section = "radarr" THEN file.radarr ELSE file.sonarr

\* the loop over one section's desired entries (recyclarr_config.py 65-82)
SectionChanges(desired, existing) ==
    Flatten([i \in 1..Len(desired) |->
        IF desired[i].name \notin NamesOf(existing)
        THEN << [type |-> "create", name |-> desired[i].name] >>
        ELSE IF \/ desired[i].base_url # ByName(existing, desired[i].name).base_url
                \/ desired[i].api_key # ByName(existing, desired[i].name).api_key
        THEN << [type |-> "update", name |-> desired[i].name] >>
        ELSE <<>>])

plan_recyclarr(st) ==
    IF st.recyclarr = None \/ st.recyclarr.config_path = "" THEN <<>>
    ELSE LET desired == generate_recyclarr_config(st) IN
         SectionChanges(desired.radarr, ExistingSection(recyclarr_file, "radarr"))
         \o SectionChanges(desired.sonarr, ExistingSection(recyclarr_file, "sonarr"))

_add_recyclarr_to_plan(p, st) ==
    IF st.recyclarr = None \/ st.recyclarr.config_path = "" THEN p
    ELSE LET changes == plan_recyclarr(st) IN
         IF changes = <<>> THEN p
         ELSE [p EXCEPT !.recyclarr =
                [config_path |-> st.recyclarr.config_path,
                 actions |-> [i \in 1..Len(changes) |->
                    Action(IF changes[i].type = "create" THEN CREATE ELSE UPDATE,
                           changes[i].name, "",
                           IF changes[i].type = "create" THEN "will be added"
                           ELSE "will be updated",
                           [op |-> "apply_recyclarr"])]]]

(***************************************************************************)
(* api_key.py and state.py: resolving the declared document.               *)
(***************************************************************************)
\* cache.get("api_keys", {}).get(container), falsy when absent
Cached(c, container) == IF container \in DOMAIN c THEN c[container] ELSE ""

\* extract_api_key(container) on cache file c: [ok, key, cache]; ok = FALSE
\* when _docker_extract raises
extract_api_key(container, c) ==
    IF Cached(c, container) # ""
    THEN [ok |-> TRUE, key |-> Cached(c, container), cache |-> c]
    ELSE IF docker[container] = ""
    THEN [ok |-> FALSE, key |-> "", cache |-> c]
    ELSE [ok |-> TRUE, key |-> docker[container],
          cache |-> Put(c, container, docker[container])]

\* an invalidation that drops every cached key
InvalidateAll(container, c) == EmptyDict

\* invalidate_cache(container)
invalidate_cache(container, c) == [x \in DOMAIN c \ {container} |-> c[x]]

\* not api_key and container (state.py 97, 129)
NeedsKey(svc) == svc # None /\ svc.api_key = "" /\ svc.container # ""

\* the containers resolve_state extracts a key for, in the order of the calls
KeyRequests(d) ==
    (IF NeedsKey(d.prowlarr) THEN <<d.prowlarr.container>> ELSE <<>>)
    \o Flatten([u \in 1..Len(d.users) |->
          (IF NeedsKey(d.users[u].radarr)
           THEN <<d.users[u].radarr.container>> ELSE <<>>)
          \o (IF NeedsKey(d.users[u].sonarr)
              THEN <<d.users[u].sonarr.container>> ELSE <<>>)])

RECURSIVE ExtractAll(_, _)
\* the extract_api_key calls in order, stopping at the first that raises
ExtractAll(requests, c) ==
    IF requests = <<>> THEN [ok |-> TRUE, cache |-> c]
    ELSE LET r == extract_api_key(Head(requests), c) IN
         IF r.ok THEN ExtractAll(Tail(requests), r.cache)
         ELSE [ok |-> FALSE, cache |-> r.cache]

\* _resolve_api_key, given the cache file as the extractions left it
WithKey(svc, c) ==
    IF NeedsKey(svc) THEN [svc EXCEPT !.api_key = Cached(c, svc.container)]
    ELSE svc

\* _apply_reference for one service family
\* a copy that merges the reference's maps into the target's key by key
MergedByKey(target_svc, ref_svc) ==
    IF target_svc = None \/ ref_svc = None THEN target_svc
    ELSE LET Merge(t, r) == [k \in DOMAIN t \cup DOMAIN r |->
                                IF k \in DOMAIN t THEN t[k] ELSE r[k]]
         IN [target_svc EXCEPT
                !.naming = Merge(@, ref_svc.naming),
                !.media_management = Merge(@, ref_svc.media_management)]

\* a copy that takes nothing from the reference
InheritNothing(target_svc, ref_svc) == target_svc

InheritService(target_svc, ref_svc) ==
    IF target_svc = None \/ ref_svc = None THEN target_svc
    ELSE [target_svc EXCEPT
            !.naming = IF DOMAIN target_svc.naming = {}
                       THEN ref_svc.naming ELSE @,
            !.media_management = IF DOMAIN target_svc.media_management = {}
                                 THEN ref_svc.media_management ELSE @]

_apply_reference(user, ref_user) ==
    [user EXCEPT !.radarr = InheritService(user.radarr, ref_user.radarr),
                 !.sonarr = InheritService(user.sonarr, ref_user.sonarr)]

RECURSIVE ResolveReferences(_, _)
\* a second pass that lets a reference to an undeclared user pass
ResolveSkippingUnknown(users, i) ==
    IF i > Len(users) THEN [ok |-> TRUE, users |-> users]
    ELSE IF users[i].reference = "" \/ users[i].reference \notin UserNames(users)
    THEN ResolveReferences(users, i + 1)
    ELSE ResolveReferences(
            [users EXCEPT ![i] = _apply_reference(users[i],
                                    UserByName(users, users[i].reference))],
            i + 1)

\* the second pass of resolve_state from user i on: [ok, users]; ok = FALSE
\* when a reference names no declared user (ValueError)
ResolveReferences(users, i) ==
    IF i > Len(users) THEN [ok |-> TRUE, users |-> users]
    ELSE IF users[i].reference = "" THEN ResolveReferences(users, i + 1)
    ELSE IF users[i].reference \notin UserNames(users)
    THEN [ok |-> FALSE, users |-> users]
    ELSE ResolveReferences(
            [users EXCEPT ![i] = _apply_reference(users[i],
                                    UserByName(users, users[i].reference))],
            i + 1)

\* resolve_state: [ok, state, cache]
resolve_state(d, c) ==
    LET ex == ExtractAll(KeyRequests(d), c)
        parsed == [u \in 1..Len(d.users) |->
                     [d.users[u] EXCEPT !.radarr = WithKey(@, ex.cache),
                                        !.sonarr = WithKey(@, ex.cache)]]
        refs == ResolveReferences(parsed, 1)
    IN  IF ~ex.ok THEN [ok |-> FALSE, state |-> None, cache |-> ex.cache]
        ELSE IF ~refs.ok THEN [ok |-> FALSE, state |-> None, cache |-> ex.cache]
        ELSE [ok |-> TRUE, cache |-> ex.cache,
              state |-> [prowlarr |-> IF d.prowlarr = None THEN None
                                      ELSE [url |-> d.prowlarr.url,
                                            api_key |-> WithKey(d.prowlarr, ex.cache).api_key],
                         recyclarr |-> d.recyclarr,
                         users |-> refs.users]]

(***************************************************************************)
(* The apply steps: what each closure does when the executor calls it.     *)
(* Every HTTP request may fail (raise_for_status, a timeout); b is the     *)
(* number of requests of the step that succeed before one raises.  A       *)
(* service stores what is posted to it and gives a created entry the next  *)
(* free id.                                                                *)
(***************************************************************************)
\* POST of a new entry to a list of a service: the list with the entry added
Created(srv, entry) == Put(entry, "id", srv.nextId)

\* the entry with this id replaced (PUT .../{id})
Replaced(entries, id, entry) ==
    [i \in 1..Len(entries) |->
        IF entries[i].id = id THEN Put(entry, "id", id) ELSE entries[i]]

\* {k: v for k, v in d.items() if k != "id"}
WithoutId(d) == [k \in DOMAIN d \ {"id"} |-> d[k]]

RECURSIVE SyncCfLoop(_, _, _, _, _)
\* the loop of _sync_custom_formats over ref_cfs (diff.py 249-255) on target
\* service srv and cf_id_map m, against the names t_cfs fetched before the loop
SyncCfLoop(ref_cfs, t_cfs, srv, m, b) ==
    IF ref_cfs = <<>> THEN [srv |-> srv, map |-> m, ok |-> TRUE]
    ELSE LET ref_cf == Head(ref_cfs) IN
         IF ref_cf.name \notin NamesOf(t_cfs)
         THEN IF b = 0 THEN [srv |-> srv, map |-> m, ok |-> FALSE]
              ELSE LET created == Created(srv, WithoutId(ref_cf)) IN
                   SyncCfLoop(Tail(ref_cfs), t_cfs,
                       [srv EXCEPT !.customFormats = Append(@, created),
                                   !.nextId = @ + 1],
                       Put(m, ref_cf.id, created.id), b - 1)
         ELSE SyncCfLoop(Tail(ref_cfs), t_cfs, srv,
                         Put(m, ref_cf.id, ByName(t_cfs, ref_cf.name).id), b)

\* a custom-format step that does not fetch the target's custom formats
SyncWithoutFetch(ref_cfs, srv, m, b) ==
    IF b = 0 THEN [srv |-> srv, map |-> m, ok |-> FALSE]
    ELSE SyncCfLoop(ref_cfs, <<>>, srv, m, b - 1)

\* _sync_custom_formats (diff.py 245-255)
_sync_custom_formats(ref_cfs, srv, m, b) ==
    IF b = 0 THEN [srv |-> srv, map |-> m, ok |-> FALSE]
    ELSE SyncCfLoop(ref_cfs, srv.customFormats, srv, m, b - 1)

\* a payload that keeps the reference's custom-format ids
NotRemapped(profile, m) == profile

\* for fi in payload.get("formatItems", []): remap fi["format"] through cf_id_map
Remap(profile, m) ==
    IF "formatItems" \notin DOMAIN profile THEN profile
    ELSE LET items == profile.formatItems IN
         [profile EXCEPT !.formatItems =
            [i \in 1..Len(items) |->
                IF items[i].format \in DOMAIN m
                THEN [items[i] EXCEPT !.format = m[items[i].format]]
                ELSE items[i]]]

RECURSIVE SyncProfilesLoop(_, _, _, _, _)
\* the loop of _sync_quality_profiles over ref_profiles (diff.py 297-307)
SyncProfilesLoop(ref_profiles, t_profiles, srv, m, b) ==
    IF ref_profiles = <<>> THEN [srv |-> srv, map |-> m, ok |-> TRUE]
    ELSE IF b = 0 THEN [srv |-> srv, map |-> m, ok |-> FALSE]
    ELSE LET ref_p == Head(ref_profiles)
             payload == Remap(WithoutId(ref_p), m)
         IN SyncProfilesLoop(Tail(ref_profiles), t_profiles,
               IF ref_p.name \in NamesOf(t_profiles)
               THEN [srv EXCEPT !.qualityProfiles =
                        Replaced(@, ByName(t_profiles, ref_p.name).id, payload)]
               ELSE [srv EXCEPT !.qualityProfiles = Append(@, Created(srv, payload)),
                                !.nextId = @ + 1],
               m, b - 1)

\* _sync_quality_profiles (diff.py 294-307)
_sync_quality_profiles(ref_profiles, srv, m, b) ==
    IF b = 0 THEN [srv |-> srv, map |-> m, ok |-> FALSE]
    ELSE SyncProfilesLoop(ref_profiles, srv.qualityProfiles, srv, m, b - 1)

\* a step of one request on a Radarr/Sonarr service: the service after it
ArrRequest(e, srv) ==
    CASE e.op = "create_download_client" ->
            [srv EXCEPT !.downloadClients = Append(@, Created(srv, e.payload)),
                        !.nextId = @ + 1]
      [] e.op = "update_download_client" ->
            [srv EXCEPT !.downloadClients = Replaced(@, e.id, e.payload)]
      [] e.op = "create_root_folder" ->
            [srv EXCEPT !.rootFolders = Append(@, Created(srv, [path |-> e.path])),
                        !.nextId = @ + 1]
      [] e.op = "update_quality_definitions" ->
            [srv EXCEPT !.qualityDefinitions = e.defs]
      [] e.op = "update_naming_config" -> [srv EXCEPT !.naming = e.config]
      [] e.op = "update_media_management" ->
            [srv EXCEPT !.mediaManagement = e.config]

\* ProwlarrClient.build_app_payload, for a schema with these three fields
build_app_payload(e) ==
    [name |-> e.name, implementation |-> e.impl, syncLevel |-> "fullSync",
     fields |-> << [name |-> "prowlarrUrl", value |-> e.prowlarr_url],
                   [name |-> "baseUrl", value |-> e.url],
                   [name |-> "apiKey", value |-> e.key] >>]

\* existing[section].update(config[section]) (recyclarr_config.py 105-108)
MergeSection(existing, desired) ==
    [i \in 1..Len(existing) |->
        IF existing[i].name \in NamesOf(desired)
        THEN ByName(desired, existing[i].name) ELSE existing[i]]
    \o SelectSeq(desired, LAMBDA d : d.name \notin NamesOf(existing))

\* apply_recyclarr: the file it writes
apply_recyclarr(st) ==
    IF st.recyclarr = None \/ st.recyclarr.config_path = "" THEN recyclarr_file
    ELSE LET config == generate_recyclarr_config(st) IN
         [radarr |-> MergeSection(ExistingSection(recyclarr_file, "radarr"),
                                  config.radarr),
          sonarr |-> MergeSection(ExistingSection(recyclarr_file, "sonarr"),
                                  config.sonarr)]

\* the number of requests the closure e makes when none fails
Requests(e) ==
    CASE e.op = "_sync_custom_formats" ->
            1 + Count(e.ref_cfs,
                      LAMBDA c : c.name \notin NamesOf(get_custom_formats(e.client)))
      [] e.op = "_sync_quality_profiles" -> 1 + Len(e.ref_profiles)
      [] e.op \in {"_create_app", "_update_app"} -> 2
      [] OTHER -> 1

\* the world after closure e ran with b of its requests succeeding:
\* [ok, servers, cf_id_map, prowlarr_apps, recyclarr_file]
Execute(e, b) ==
    LET ok == b >= Requests(e)
        same == [ok |-> ok, servers |-> servers, cf_id_map |-> cf_id_map,
                 prowlarr_apps |-> prowlarr_apps, recyclarr_file |-> recyclarr_file]
    IN CASE e.op = "_sync_custom_formats" ->
              LET r == _sync_custom_formats(e.ref_cfs, servers[e.client],
                                            cf_id_map[e.client], b)
              IN [same EXCEPT !.servers = [servers EXCEPT ![e.client] = r.srv],
                              !.cf_id_map = [cf_id_map EXCEPT ![e.client] = r.map]]
         [] e.op = "_sync_quality_profiles" ->
              LET r == _sync_quality_profiles(e.ref_profiles, servers[e.client],
                                              cf_id_map[e.client], b)
              IN [same EXCEPT !.servers = [servers EXCEPT ![e.client] = r.srv]]
         [] e.op = "_create_app" ->
              IF ~ok THEN same
              ELSE [same EXCEPT !.prowlarr_apps =
                      Append(@, Put(build_app_payload(e), "id", Len(@) + 1))]
         [] e.op = "_update_app" ->
              IF ~ok THEN same
              ELSE [same EXCEPT !.prowlarr_apps =
                      Replaced(@, e.id, build_app_payload(e))]
         [] e.op = "apply_recyclarr" ->
              IF ~ok THEN same
              ELSE [same EXCEPT !.recyclarr_file = apply_recyclarr(state)]
         [] OTHER ->
              IF ~ok THEN same
              ELSE [same EXCEPT !.servers =
                      [servers EXCEPT ![e.client] = ArrRequest(e, @)]]

(***************************************************************************)
(* diff.py: apply_plan.                                                    *)
(***************************************************************************)
\* if action.execute is None: continue (diff.py 640-641)
Skipped(a) == a.execute = None

\* an executor that lets the exception of an apply step propagate
AbortOnFailure(loop, ok) ==
    IF ok THEN [loop EXCEPT !.idx = @ + 1, !.applied = @ + 1]
    ELSE [loop EXCEPT !.errors = @ + 1, !.raised = TRUE]

\* The try/except around action.execute() (diff.py 642-648) on the locals
\* loop = [idx, applied, errors, raised]: execute returned (ok) or raised.
Counted(loop, ok) ==
    IF ok THEN [loop EXCEPT !.idx = @ + 1, !.applied = @ + 1]
    ELSE [loop EXCEPT !.idx = @ + 1, !.errors = @ + 1]

\* an executor that reports success whatever failed
AlwaysSuccess(errs) == TRUE

\* return errors == 0 (diff.py 668)
apply_plan_result(errs) == errs = 0

(***************************************************************************)
(* arr_sync.py: the plan and apply commands, step by step.                 *)
(***************************************************************************)
\* the plan command, or apply --dry-run which invokes it
PlanOnly == cli.command = "plan" \/ cli.dry_run

Exit(code) == /\ pc' = "exit"
              /\ exit_code' = code

\* users_to_check = {user: state.users[user]} if user else state.users
UsersToCheck == UsersToProcess(state, cli.user)

\* some extract_api_key call of resolve_state finds no cached key and runs
\* docker exec
DockerCalled(requests, c) ==
    \E i \in 1..Len(requests) : Cached(c, requests[i]) = ""

\* the checked users have a service with url and key / Seedr credentials
AnyService(users) ==
    \E i \in 1..Len(users) : Configured(users[i].radarr) \/ Configured(users[i].sonarr)

AnySeedr(users) == \E i \in 1..Len(users) : users[i].seedr # None

\* resolve_state(config_path), and sys.exit(1) when it raises
Load ==
    /\ pc = "start"
    /\ LET r == resolve_state(doc, cache) IN
       /\ cache' = r.cache
       /\ IF r.ok THEN /\ state' = r.state
                       /\ pc' = "loaded"
                       /\ UNCHANGED exit_code
          ELSE /\ Exit(1)
               /\ UNCHANGED state
    /\ calls' = calls \cup (IF DockerCalled(KeyRequests(doc), cache)
                             THEN {"docker"} ELSE {})
    /\ UNCHANGED <<cli, doc, docker, servers, prowlarr_apps, recyclarr_file,
                   hash_order, plan, cf_id_map, idx, applied, errors, success,
                   invoked, failed, raised, confirmed, followups>>
    /\ UNCHANGED invocations

\* if user and user not in state.users: sys.exit(1)
CheckUser ==
    /\ pc = "loaded"
    /\ IF cli.user # NoneValue /\ cli.user # "" /\ cli.user \notin UserNames(state.users)
       THEN Exit(1)
       ELSE /\ pc' = IF cli.command = "status" THEN "status" ELSE "validate"
            /\ UNCHANGED exit_code
    /\ UNCHANGED <<cli, doc, docker, cache, state, servers, prowlarr_apps,
                   recyclarr_file, hash_order, plan, cf_id_map, idx, applied,
                   errors, success, invoked, failed, raised, confirmed, followups,
                   calls>>
    /\ UNCHANGED invocations

\* The rest of the status command: get_status of Prowlarr, then per checked
\* user the reads of each service (any exception reported as UNREACHABLE) and
\* validate_credentials, of which only RuntimeError is caught.  It writes
\* nothing.
Status ==
    /\ pc = "status"
    /\ \E outcome \in {"reported", "HTTPError"} :
        /\ outcome = "HTTPError" => AnySeedr(UsersToCheck)
        /\ Exit(IF outcome = "HTTPError" THEN 1 ELSE 0)
    /\ calls' = calls
                 \cup (IF \/ (state.prowlarr # None /\ state.prowlarr.url # "")
                          \/ AnyService(UsersToCheck)
                       THEN {"service"} ELSE {})
                 \cup (IF AnySeedr(UsersToCheck) THEN {"seedr"} ELSE {})
    /\ UNCHANGED <<cli, doc, docker, cache, state, servers, prowlarr_apps,
                   recyclarr_file, hash_order, plan, cf_id_map, idx, applied,
                   errors, success, invoked, failed, raised, confirmed, followups>>
    /\ UNCHANGED invocations

\* The loop validating Seedr credentials.  outcome: every credential is valid,
\* validate_credentials raises RuntimeError for one, or raises another error
\* (raise_for_status), which no handler of either command catches.
Validate ==
    /\ pc = "validate"
    /\ \E outcome \in {"valid", "RuntimeError", "HTTPError"} :
        /\ outcome # "valid" => \E i \in 1..Len(UsersToCheck) : UsersToCheck[i].seedr # None
        /\ IF outcome = "HTTPError" \/ (outcome = "RuntimeError" /\ ~PlanOnly)
           THEN Exit(1)
           ELSE /\ pc' = "plan"
                /\ UNCHANGED exit_code
    /\ calls' = calls \cup (IF AnySeedr(UsersToCheck) THEN {"seedr"} ELSE {})
    /\ UNCHANGED <<cli, doc, docker, cache, state, servers, prowlarr_apps,
                   recyclarr_file, hash_order, plan, cf_id_map, idx, applied,
                   errors, success, invoked, failed, raised, confirmed, followups>>
    /\ UNCHANGED invocations

\* compute_plan and _add_recyclarr_to_plan; a request that fails while the
\* plan is computed raises, and the command exits with 1
ComputePlan ==
    /\ pc = "plan"
    /\ \E fetched \in BOOLEAN :
        IF fetched
        THEN /\ plan' = _add_recyclarr_to_plan(compute_plan(state, cli.user), state)
             /\ cf_id_map' = PlannedCfIdMaps(state, cli.user)
             /\ pc' = "display"
             /\ UNCHANGED exit_code
        ELSE /\ Exit(1)
             /\ UNCHANGED <<plan, cf_id_map>>
    /\ calls' = calls
                 \cup (IF \/ (state.prowlarr # None /\ state.prowlarr.url # ""
                                /\ state.prowlarr.api_key # "")
                          \/ AnyService(UsersToCheck)
                       THEN {"service"} ELSE {})
    /\ UNCHANGED <<cli, doc, docker, cache, state, servers, prowlarr_apps,
                   recyclarr_file, hash_order, idx, applied, errors, success,
                   invoked, failed, raised, confirmed, followups>>
    /\ UNCHANGED invocations

\* an apply that goes from the displayed plan to the executor without asking
DisplayWithoutConfirm ==
    /\ pc = "display"
    /\ IF PlanOnly \/ (summary(plan).creates = 0 /\ summary(plan).updates = 0)
       THEN /\ Exit(0)
            /\ UNCHANGED idx
       ELSE /\ pc' = "applying"
            /\ idx' = 1
            /\ UNCHANGED exit_code
    /\ UNCHANGED <<cli, doc, docker, cache, state, servers, prowlarr_apps,
                   recyclarr_file, hash_order, plan, cf_id_map, applied,
                   errors, success, invoked, failed, raised, confirmed, followups,
                   calls>>
    /\ UNCHANGED invocations

\* display_plan; the plan command ends here, apply ends here when the plan
\* holds no CREATE and no UPDATE ("Nothing to do.")
Display ==
    /\ pc = "display"
    /\ IF PlanOnly \/ (summary(plan).creates = 0 /\ summary(plan).updates = 0)
       THEN Exit(0)
       ELSE /\ pc' = "confirm"
            /\ UNCHANGED exit_code
    /\ UNCHANGED <<cli, doc, docker, cache, state, servers, prowlarr_apps,
                   recyclarr_file, hash_order, plan, cf_id_map, idx, applied,
                   errors, success, invoked, failed, raised, confirmed, followups,
                   calls>>
    /\ UNCHANGED invocations

\* click.confirm("Apply these changes?")
Confirm ==
    /\ pc = "confirm"
    /\ \E answer \in BOOLEAN :
        /\ confirmed' = answer
        /\ IF answer THEN /\ pc' = "applying"
                          /\ idx' = 1
                          /\ UNCHANGED exit_code
           ELSE /\ Exit(0)
                /\ UNCHANGED idx
    /\ UNCHANGED <<cli, doc, docker, cache, state, servers, prowlarr_apps,
                   recyclarr_file, hash_order, plan, cf_id_map, applied, errors,
                   success, invoked, failed, raised, followups, calls>>
    /\ UNCHANGED invocations

\* one iteration of the loop of apply_plan: the action at idx is skipped, or
\* its execute is called and b of its requests succeed
ApplyAction ==
    /\ pc = "applying"
    /\ idx <= Len(all_actions(plan))
    /\ LET a == all_actions(plan)[idx] IN
       IF Skipped(a)
       THEN /\ idx' = idx + 1
            /\ UNCHANGED <<servers, cf_id_map, prowlarr_apps, recyclarr_file,
                           applied, errors, invoked, failed, raised, pc, exit_code,
                           calls>>
       ELSE \E b \in 0..Requests(a.execute) :
            LET r == Execute(a.execute, b)
                loop == Counted([idx |-> idx, applied |-> applied,
                                 errors |-> errors, raised |-> raised], r.ok)
            IN /\ servers' = r.servers
               /\ cf_id_map' = r.cf_id_map
               /\ prowlarr_apps' = r.prowlarr_apps
               /\ recyclarr_file' = r.recyclarr_file
               /\ invoked' = Append(invoked, idx)
               /\ failed' = IF r.ok THEN failed ELSE Append(failed, idx)
               /\ idx' = loop.idx
               /\ applied' = loop.applied
               /\ errors' = loop.errors
               /\ raised' = loop.raised
               /\ calls' = calls \cup (IF a.execute.op = "apply_recyclarr"
                                        THEN {} ELSE {"service"})
               /\ IF loop.raised THEN Exit(1) ELSE UNCHANGED <<pc, exit_code>>
    /\ UNCHANGED <<cli, doc, docker, cache, state, hash_order, plan, success,
                   confirmed, followups>>
    /\ UNCHANGED invocations

\* the end of apply_plan: it returns errors == 0
ApplyReturn ==
    /\ pc = "applying"
    /\ idx > Len(all_actions(plan))
    /\ success' = apply_plan_result(errors)
    /\ pc' = "recyclarr"
    /\ UNCHANGED <<cli, doc, docker, cache, state, servers, prowlarr_apps,
                   recyclarr_file, hash_order, plan, cf_id_map, idx, applied,
                   errors, exit_code, invoked, failed, raised, confirmed,
                   followups, calls>>
    /\ UNCHANGED invocations

\* arr_sync.py 170-175: apply_recyclarr once more, any exception caught
ApplyRecyclarr ==
    /\ pc = "recyclarr"
    /\ IF plan.recyclarr # None /\ plan.recyclarr.actions # <<>>
       THEN /\ followups' = followups \cup {"apply_recyclarr"}
            /\ \E written \in BOOLEAN :
                 recyclarr_file' = IF written THEN apply_recyclarr(state)
                                   ELSE recyclarr_file
       ELSE UNCHANGED <<followups, recyclarr_file>>
    /\ pc' = "trigger"
    /\ UNCHANGED <<cli, doc, docker, cache, state, servers, prowlarr_apps,
                   hash_order, plan, cf_id_map, idx, applied, errors, success,
                   exit_code, invoked, failed, raised, confirmed, calls>>
    /\ UNCHANGED invocations

\* _trigger_prowlarr_sync(state), any exception caught
TriggerSync ==
    /\ pc = "trigger"
    /\ IF state.prowlarr # None /\ state.prowlarr.url # "" /\ state.prowlarr.api_key # ""
       THEN /\ followups' = followups \cup {"trigger_app_indexer_sync"}
            /\ calls' = calls \cup {"service"}
       ELSE UNCHANGED <<followups, calls>>
    /\ pc' = "finish"
    /\ UNCHANGED <<cli, doc, docker, cache, state, servers, prowlarr_apps,
                   recyclarr_file, hash_order, plan, cf_id_map, idx, applied,
                   errors, success, exit_code, invoked, failed, raised, confirmed>>
    /\ UNCHANGED invocations

\* if not success: sys.exit(1)
Finish ==
    /\ pc = "finish"
    /\ Exit(IF success THEN 0 ELSE 1)
    /\ UNCHANGED <<cli, doc, docker, cache, state, servers, prowlarr_apps,
                   recyclarr_file, hash_order, plan, cf_id_map, idx, applied,
                   errors, success, invoked, failed, raised, confirmed, followups,
                   calls>>
    /\ UNCHANGED invocations

Next ==
    \/ Load
    \/ CheckUser
    \/ Status
    \/ Validate
    \/ ComputePlan
    \/ Display
    \/ Confirm
    \/ ApplyAction
    \/ ApplyReturn
    \/ ApplyRecyclarr
    \/ TriggerSync
    \/ Finish

(***************************************************************************)
(* Initial states: the inputs of a run.                                    *)
(***************************************************************************)
\* a run of command line c on document d, before its first step
InitRun(c, d) ==
    /\ cli = c
    /\ doc = d
    /\ state = None
    /\ plan = None
    /\ cf_id_map = EmptyDict
    /\ pc = "start"
    /\ idx = 0
    /\ applied = 0
    /\ errors = 0
    /\ success = FALSE
    /\ exit_code = -1
    /\ invoked = <<>>
    /\ failed = <<>>
    /\ raised = FALSE
    /\ confirmed = FALSE
    /\ followups = {}
    /\ calls = {}
    /\ invocations = <<>>

ApplyAll == [command |-> "apply", user |-> NoneValue, dry_run |-> FALSE]
StatusAll == [command |-> "status", user |-> NoneValue, dry_run |-> FALSE]

\* the command lines of the runs that look at one planner
FocusedCommands == {ApplyAll, StatusAll}

\* ServiceConfig with the defaults of _parse_service
ServiceConfig(url, api_key) ==
    [url |-> url, api_key |-> api_key, container |-> "", root_folders |-> <<>>,
     naming |-> EmptyDict, media_management |-> EmptyDict]

\* a tenant declaring nothing but its name
UserState(name) ==
    [name |-> name, seedr |-> None, radarr |-> None, sonarr |-> None,
     reference |-> ""]

\* a service holding nothing
EmptyServer ==
    [rootFolders |-> <<>>, downloadClients |-> <<>>, customFormats |-> <<>>,
     qualityProfiles |-> <<>>, qualityDefinitions |-> <<>>,
     naming |-> [id |-> 1], mediaManagement |-> [id |-> 1], nextId |-> 100]

\* entries with the ids first, first + 1, ...
WithIds(entries, first) ==
    [i \in 1..Len(entries) |-> Put(entries[i], "id", first + i - 1)]

\* the sequences over S without repetition, of length at most n
DistinctSeqs(S, n) ==
    {q \in SeqsUpTo(S, n) : \A i, j \in 1..Len(q) : q[i] = q[j] => i = j}

Paths == {"/movies", "/movies-4k", "/old"}
RadarrAlice == "http://radarr-alice:7878"

\* Root folders: one tenant with one Radarr, any declared list and any live list
InitRootFolders ==
    \E c \in FocusedCommands,
       desired \in SeqsUpTo(Paths, MaxDesired), live \in DistinctSeqs(Paths, MaxLive) :
        /\ InitRun(c,
              [prowlarr |-> None, recyclarr |-> None,
               users |-> << [UserState("alice") EXCEPT
                    !.radarr = [ServiceConfig(RadarrAlice, "key-a") EXCEPT
                                    !.root_folders = desired]] >>])
        /\ servers = [u \in {RadarrAlice} |->
              [EmptyServer EXCEPT !.rootFolders =
                  WithIds([i \in 1..Len(live) |-> [path |-> live[i]]], 1)]]
        /\ hash_order \in Perms(Paths)
        /\ docker = EmptyDict
        /\ cache = EmptyDict
        /\ prowlarr_apps = <<>>
        /\ recyclarr_file = None

SpecRootFolders == InitRootFolders /\ [][Next]_vars

\* most clients of another implementation listed before the Seedr one
MaxWrites == 1
MaxOther == 1

SeedrConfigs ==
    [email : {"a@x.com", "b@x.com"}, password : {"p1", "p2"},
     download_directory : {"/dl", "/downloads"},
     delete_from_cloud : {"true", "false"}]

\* a live download client of implementation Seedr holding configuration c
SeedrClient(c) ==
    [name |-> "Seedr", implementation |-> "Seedr",
     fields |-> << [name |-> "email", value |-> c.email],
                   [name |-> "password", value |-> c.password],
                   [name |-> "downloadDirectory", value |-> c.download_directory],
                   [name |-> "deleteFromCloud", value |-> c.delete_from_cloud] >>]

\* the same without its password field, and without any field list
SeedrClientNoPassword(c) ==
    [SeedrClient(c) EXCEPT !.fields = SelectSeq(@, LAMBDA f : f.name # "password")]

SeedrClientNoFields == [name |-> "Seedr", implementation |-> "Seedr"]

OtherClient == [name |-> "qBittorrent", implementation |-> "QBittorrent",
                fields |-> << [name |-> "host", value |-> "qbit"] >>]

LiveSeedrClients ==
    {<<>>, <<SeedrClientNoFields>>}
    \cup {<<SeedrClient(c)>> : c \in SeedrConfigs}
    \cup {<<SeedrClientNoPassword(c)>> : c \in SeedrConfigs}

\* Download client: one tenant with Seedr credentials and one Radarr holding
\* at most one Seedr client among clients of another implementation
InitDownloadClient ==
    \E c \in FocusedCommands,
       desired \in SeedrConfigs, live \in LiveSeedrClients,
       before \in 0..MaxOther, after \in 0..1 :
        /\ InitRun(c,
              [prowlarr |-> None, recyclarr |-> None,
               users |-> << [UserState("alice") EXCEPT
                    !.seedr = desired,
                    !.radarr = ServiceConfig(RadarrAlice, "key-a")] >>])
        /\ servers = [u \in {RadarrAlice} |->
              [EmptyServer EXCEPT !.downloadClients =
                  WithIds([i \in 1..before |-> OtherClient] \o live
                          \o [i \in 1..after |-> OtherClient], 1)]]
        /\ hash_order = <<>>
        /\ docker = EmptyDict
        /\ cache = EmptyDict
        /\ prowlarr_apps = <<>>
        /\ recyclarr_file = None

SpecDownloadClient == InitDownloadClient /\ [][Next]_vars

RadarrBob == "http://radarr-bob:7878"
CfNames == {"x265", "HDR"}
ProfileNames == {"HD", "UHD"}

\* a custom format / a quality profile as the API returns it
CustomFormat(name) == [name |-> name, specifications |-> "spec of " \o name]

\* a profile scoring the custom formats with these ids
Profile(name, cf_ids) ==
    [name |-> name, cutoff |-> "1080p",
     formatItems |-> [i \in 1..Len(cf_ids) |-> [format |-> cf_ids[i], score |-> "10"]]]

RefDefs == << [quality |-> "HD-1080p", minSize |-> "0", maxSize |-> "100",
               preferredSize |-> "50"] >>

RefNaming == [id |-> 1, renameMovies |-> "true",
              standardMovieFormat |-> "{Movie Title} ({Release Year})"]

RefMediaManagement == [id |-> 1, recycleBin |-> "/recycle",
                       deleteEmptyFolders |-> "true"]

\* the reference service holding these custom formats and profiles
RefServer(cf_names, profile_names) ==
    [EmptyServer EXCEPT
        !.customFormats = WithIds([i \in 1..Len(cf_names) |->
                                      CustomFormat(cf_names[i])], 1),
        !.qualityProfiles = WithIds([i \in 1..Len(profile_names) |->
                                        Profile(profile_names[i],
                                                [k \in 1..Len(cf_names) |-> k])], 1),
        !.qualityDefinitions = RefDefs,
        !.naming = RefNaming,
        !.mediaManagement = RefMediaManagement]

\* a target service holding these custom formats and profiles under its own ids
TargetServer(cf_names, profile_names, defs, naming, mm) ==
    [EmptyServer EXCEPT
        !.customFormats = WithIds([i \in 1..Len(cf_names) |->
                                      CustomFormat(cf_names[i])], 11),
        !.qualityProfiles = WithIds([i \in 1..Len(profile_names) |->
                                        Profile(profile_names[i], <<>>)], 21),
        !.qualityDefinitions = defs,
        !.naming = naming,
        !.mediaManagement = mm]

\* Reference sync: bob's Radarr follows alice's Radarr
InitReference ==
    \E c \in FocusedCommands,
       ref_cfs \in DistinctSeqs(CfNames, MaxRef),
       target_cfs \in DistinctSeqs(CfNames, MaxRef),
       ref_profiles \in DistinctSeqs(ProfileNames, MaxRef),
       target_profiles \in DistinctSeqs(ProfileNames, MaxRef),
       defs \in {RefDefs, <<>>},
       naming \in {[RefNaming EXCEPT !.id = 7],
                   [RefNaming EXCEPT !.id = 7, !.renameMovies = "false"]} :
        /\ InitRun(c,
              [prowlarr |-> None, recyclarr |-> None,
               users |-> << [UserState("alice") EXCEPT
                                !.radarr = ServiceConfig(RadarrAlice, "key-a")],
                            [UserState("bob") EXCEPT
                                !.radarr = ServiceConfig(RadarrBob, "key-b"),
                                !.reference = "alice"] >>])
        /\ servers = [u \in {RadarrAlice, RadarrBob} |->
              IF u = RadarrAlice THEN RefServer(ref_cfs, ref_profiles)
              ELSE TargetServer(target_cfs, target_profiles, defs, naming,
                                RefMediaManagement)]
        /\ hash_order = <<>>
        /\ docker = EmptyDict
        /\ cache = EmptyDict
        /\ prowlarr_apps = <<>>
        /\ recyclarr_file = None

SpecReference == InitReference /\ [][Next]_vars

SonarrAlice == "http://sonarr-alice:8989"
ProwlarrUrl == "http://prowlarr:9696"

SeedrAlice == [email |-> "a@x.com", password |-> "p2",
               download_directory |-> "/dl", delete_from_cloud |-> "true"]

\* the declared document of the integrated runs: alice with a Radarr and a
\* Sonarr, bob with a Radarr, and the optional parts as given
Document(prowlarr, recyclarr, seedr, reference) ==
    [prowlarr |-> prowlarr, recyclarr |-> recyclarr,
     users |-> << [UserState("alice") EXCEPT
                      !.seedr = seedr,
                      !.radarr = [ServiceConfig(RadarrAlice, "key-a") EXCEPT
                                     !.root_folders = <<"/movies">>],
                      !.sonarr = ServiceConfig(SonarrAlice, "key-s")],
                  [UserState("bob") EXCEPT
                      !.radarr = ServiceConfig(RadarrBob, "key-b"),
                      !.reference = reference] >>]

\* the Prowlarr application of one declared service, as Prowlarr lists it
AppOf(username, impl, url, key) ==
    build_app_payload([name |-> AppName(impl, username), impl |-> impl,
                       prowlarr_url |-> ProwlarrUrl, url |-> url, key |-> key])

AppsInSync ==
    WithIds(<< AppOf("alice", "Radarr", RadarrAlice, "key-a"),
               AppOf("alice", "Sonarr", SonarrAlice, "key-s"),
               AppOf("bob", "Radarr", RadarrBob, "key-b") >>, 1)

AppsStale ==
    WithIds(<< AppOf("alice", "Radarr", RadarrAlice, "old-key"),
               AppOf("alice", "Sonarr", SonarrAlice, "key-s"),
               AppOf("bob", "Radarr", RadarrBob, "key-b") >>, 1)

CommandLines ==
    {ApplyAll,
     [command |-> "apply", user |-> "bob", dry_run |-> FALSE],
     [command |-> "apply", user |-> "carol", dry_run |-> FALSE],
     [command |-> "apply", user |-> NoneValue, dry_run |-> TRUE],
     [command |-> "plan", user |-> NoneValue, dry_run |-> FALSE],
     StatusAll}

\* the document in which the Radarr of user u declares no API key but the
\* container to read it from
WithContainer(d, u, container) ==
    [d EXCEPT !.users[u].radarr.api_key = "",
              !.users[u].radarr.container = container]

\* The integrated runs: every command line on a document with Prowlarr,
\* Recyclarr, Seedr and a reference present or absent and bob's API key
\* declared or read from his container, against services that are in sync
\* with it or lack what it declares
Init ==
    \E c \in CommandLines,
       prowlarr \in {None, [url |-> ProwlarrUrl, api_key |-> "key-p", container |-> ""]},
       apps \in {<<>>, AppsInSync, AppsStale},
       recyclarr \in {None, [config_path |-> "/config/recyclarr.yml"]},
       file_in_sync \in BOOLEAN,
       seedr \in {None, SeedrAlice},
       live_seedr \in {<<>>, <<SeedrClient(SeedrAlice)>>},
       live_folders \in {<<"/movies">>, <<"/old">>},
       reference \in {"", "alice"},
       target \in {"in sync", "lacks formats and profiles", "differs in settings"},
       key_b \in {"key-b", ""} :
        LET resolved == Document(prowlarr, recyclarr, seedr, reference)
            d == IF key_b = "" THEN WithContainer(resolved, 2, "radarr-bob")
                 ELSE resolved
        IN
        /\ prowlarr = None => apps = <<>>
        /\ recyclarr = None => ~file_in_sync
        /\ seedr = None => live_seedr = <<>>
        /\ reference = "" => target = "in sync"
        /\ key_b = "" => reference = ""
        /\ InitRun(c, d)
        /\ servers = [u \in {RadarrAlice, SonarrAlice, RadarrBob} |->
              CASE u = RadarrAlice ->
                     [RefServer(<<"x265">>, <<"HD">>) EXCEPT
                         !.rootFolders = WithIds(
                             [i \in 1..Len(live_folders) |-> [path |-> live_folders[i]]], 1),
                         !.downloadClients = WithIds(live_seedr, 1)]
                [] u = SonarrAlice ->
                     [EmptyServer EXCEPT !.downloadClients = WithIds(live_seedr, 1)]
                [] u = RadarrBob ->
                     CASE target = "in sync" ->
                            TargetServer(<<"x265">>, <<"HD">>, RefDefs,
                                [RefNaming EXCEPT !.id = 7], RefMediaManagement)
                       [] target = "lacks formats and profiles" ->
                            TargetServer(<<>>, <<>>, RefDefs,
                                [RefNaming EXCEPT !.id = 7], RefMediaManagement)
                       [] target = "differs in settings" ->
                            TargetServer(<<"x265">>, <<"HD">>, <<>>,
                                [RefNaming EXCEPT !.id = 7, !.renameMovies = "false"],
                                [RefMediaManagement EXCEPT !.recycleBin = ""])]
        /\ hash_order = <<"/movies", "/movies-4k", "/old">>
        /\ docker = [x \in {"radarr-bob"} |-> "key-b"]
        /\ cache = EmptyDict
        /\ prowlarr_apps = apps
        /\ recyclarr_file = IF file_in_sync THEN generate_recyclarr_config(resolved)
                            ELSE None

Spec == Init /\ [][Next]_vars

SonarrBob == "http://sonarr-bob:8989"

\* the blocks the referenced tenant may declare for one family: none, one
\* without url, one without API key, a complete one
ReferenceBlocks(url, api_key) ==
    {None, ServiceConfig("", api_key), ServiceConfig(url, ""),
     ServiceConfig(url, api_key)}

\* One service plan in full: bob with a Radarr and a Sonarr, with or without
\* Seedr, root folders and a reference to alice, whose blocks are absent,
\* incomplete or complete
InitService ==
    \E c \in FocusedCommands,
       ref_radarr \in ReferenceBlocks(RadarrAlice, "key-a"),
       ref_sonarr \in {None, ServiceConfig(SonarrAlice, "key-s")},
       seedr \in {None, SeedrAlice},
       root_folders \in {<<>>, <<"/movies">>},
       reference \in {"", "alice"} :
        /\ InitRun(c,
              [prowlarr |-> None, recyclarr |-> None,
               users |-> << [UserState("alice") EXCEPT
                                !.radarr = ref_radarr, !.sonarr = ref_sonarr],
                            [UserState("bob") EXCEPT
                                !.seedr = seedr,
                                !.radarr = [ServiceConfig(RadarrBob, "key-b") EXCEPT
                                               !.root_folders = root_folders],
                                !.sonarr = ServiceConfig(SonarrBob, "key-t"),
                                !.reference = reference] >>])
        /\ servers = [u \in {RadarrAlice, SonarrAlice, RadarrBob, SonarrBob} |->
              CASE u \in {RadarrAlice, SonarrAlice} -> RefServer(<<"x265">>, <<"HD">>)
                [] u = RadarrBob ->
                     TargetServer(<<>>, <<>>, RefDefs,
                                  [RefNaming EXCEPT !.id = 7], RefMediaManagement)
                [] u = SonarrBob ->
                     [TargetServer(<<"x265">>, <<"HD">>, RefDefs,
                                   [RefNaming EXCEPT !.id = 7], RefMediaManagement)
                        EXCEPT !.downloadClients =
                                   WithIds(<<SeedrClient(SeedrAlice)>>, 1)]]
        /\ hash_order = <<"/movies", "/movies-4k", "/old">>
        /\ docker = EmptyDict
        /\ cache = EmptyDict
        /\ prowlarr_apps = <<>>
        /\ recyclarr_file = None

SpecService == InitService /\ [][Next]_vars

RadarrCarol == "http://radarr-carol:7878"

PlanAll == [command |-> "plan", user |-> NoneValue, dry_run |-> FALSE]

\* the naming and media-management overrides a tenant declares as its own
OwnNaming(name) == [standard_movie_format |-> "{" \o name \o "}"]
OwnMediaManagement(name) == [recycle_bin |-> "/recycle-" \o name]

\* Chains of references: bob references alice, alice may reference carol and
\* carol may reference dave, who is not declared; the three are declared in
\* any order, each with or without naming overrides of its own, and carol
\* with or without a Radarr and media-management overrides, as bob.  bob's
\* API key is declared or extracted from his container.
InitChain ==
    \E c \in {ApplyAll, PlanAll, StatusAll},
       order \in Perms({"alice", "bob", "carol"}),
       naming_a \in {EmptyDict, OwnNaming("alice")},
       naming_b \in {EmptyDict, OwnNaming("bob")},
       mm_b \in {EmptyDict, [delete_empty_folders |-> "true"]},
       radarr_c \in {None}
                    \cup {[ServiceConfig(RadarrCarol, "key-c") EXCEPT
                              !.naming = n, !.media_management = m] :
                          <<n, m>> \in {<<EmptyDict, EmptyDict>>,
                                        <<OwnNaming("carol"), EmptyDict>>,
                                        <<OwnNaming("carol"),
                                          OwnMediaManagement("carol")>>}},
       key_b \in {"key-b", ""},
       reference_a \in {"", "carol"},
       reference_c \in {"", "dave"} :
        LET declared == [n \in {"alice", "bob", "carol"} |->
               CASE n = "alice" ->
                      [UserState("alice") EXCEPT
                          !.radarr = [ServiceConfig(RadarrAlice, "key-a") EXCEPT
                                         !.naming = naming_a],
                          !.reference = reference_a]
                 [] n = "bob" ->
                      [UserState("bob") EXCEPT
                          !.radarr = [ServiceConfig(RadarrBob, key_b) EXCEPT
                                         !.naming = naming_b,
                                         !.media_management = mm_b,
                                         !.container = "radarr-bob"],
                          !.reference = "alice"]
                 [] n = "carol" ->
                      [UserState("carol") EXCEPT
                          !.radarr = radarr_c, !.reference = reference_c]]
        IN
        /\ InitRun(c, [prowlarr |-> None, recyclarr |-> None,
                       users |-> [k \in 1..3 |-> declared[order[k]]]])
        /\ servers = [u \in {RadarrAlice, RadarrBob, RadarrCarol} |->
              CASE u = RadarrCarol -> RefServer(<<"x265">>, <<"HD">>)
                [] OTHER ->
                     TargetServer(<<"x265">>, <<"HD">>, RefDefs,
                                  [RefNaming EXCEPT !.id = 7, !.renameMovies = "false"],
                                  RefMediaManagement)]
        /\ hash_order = <<"/movies", "/movies-4k", "/old">>
        /\ docker = [x \in {"radarr-bob"} |-> "key-b"]
        /\ cache = EmptyDict
        /\ prowlarr_apps = <<>>
        /\ recyclarr_file = None

SpecChain == InitChain /\ [][Next]_vars

\* what somebody else creates in a service while a run is between planning
\* and the end of applying
WrittenByOther == "written by somebody else"

OtherCustomFormat(name) == [name |-> name, specifications |-> WrittenByOther]

OtherProfile(name) == [name |-> name, cutoff |-> WrittenByOther, formatItems |-> <<>>]

\* the entries of a service that somebody else wrote
OtherWrites(srv) ==
    Len(SelectSeq(srv.customFormats, LAMBDA c : c.specifications = WrittenByOther))
    + Len(SelectSeq(srv.qualityProfiles, LAMBDA q : q.cutoff = WrittenByOther))

\* The services are shared: after the plan was computed, somebody else creates
\* a custom format or a quality profile in a service the plan syncs
OtherWriter ==
    /\ pc \in {"confirm", "applying"}
    /\ \E url \in DOMAIN cf_id_map :
        /\ OtherWrites(servers[url]) < MaxWrites
        /\ \/ \E name \in {"x265", "HDR"} \ NamesOf(servers[url].customFormats) :
                servers' = [servers EXCEPT ![url] =
                    [@ EXCEPT !.customFormats =
                                  Append(@, Created(servers[url], OtherCustomFormat(name))),
                              !.nextId = @ + 1]]
           \/ \E name \in {"HD", "UHD"} \ NamesOf(servers[url].qualityProfiles) :
                servers' = [servers EXCEPT ![url] =
                    [@ EXCEPT !.qualityProfiles =
                                  Append(@, Created(servers[url], OtherProfile(name))),
                              !.nextId = @ + 1]]
    /\ UNCHANGED <<cli, doc, docker, cache, state, prowlarr_apps, recyclarr_file,
                   hash_order, plan, cf_id_map, pc, idx, applied, errors, success,
                   exit_code, invoked, failed, raised, confirmed, followups, calls>>
    /\ UNCHANGED invocations

NextShared == Next \/ OtherWriter

\* Reference sync on a shared service: bob's Radarr follows alice's Radarr in
\* quality definitions and settings already, and somebody else may write to
\* it while the run goes on
InitShared ==
    /\ InitReference
    /\ servers[RadarrBob].qualityDefinitions = RefDefs
    /\ servers[RadarrBob].naming.renameMovies = RefNaming.renameMovies

SpecShared == InitShared /\ [][NextShared]_vars

\* naming configurations as the API returns them: complete, with a key that
\* is not compared, lacking a compared key
LiveNamings(id) ==
    {[id |-> id, renameMovies |-> "true", standardMovieFormat |-> "{Movie Title}"],
     [id |-> id, renameMovies |-> "false", standardMovieFormat |-> "{Movie Title}"],
     [id |-> id, renameMovies |-> "true", standardMovieFormat |-> "{Movie Title}",
      colonReplacementFormat |-> "dash"],
     [id |-> id, renameMovies |-> "true"]}

\* declared naming overrides: none, keys of the allow-list, a key outside it
DeclaredNamings ==
    {EmptyDict,
     [rename_movies |-> "false"],
     [standard_movie_format |-> "{Movie Title}"],
     [rename_movies |-> "true", movie_folder_format |-> "{Movie Title} ({Release Year})"],
     [colon_replacement_format |-> "smart"]}

LiveMediaManagements(id) ==
    {[id |-> id, recycleBin |-> "/recycle", deleteEmptyFolders |-> "true"],
     [id |-> id, recycleBin |-> "", deleteEmptyFolders |-> "true"],
     [id |-> id, recycleBin |-> "/recycle", deleteEmptyFolders |-> "true",
      minimumFreeSpaceWhenImporting |-> "100"]}

DeclaredMediaManagements ==
    {EmptyDict,
     [recycle_bin |-> "/trash"],
     [delete_empty_folders |-> "true"],
     [minimum_free_space |-> "500"]}

\* the quality definitions of the reference, and what the target may hold:
\* the same, the same in another order, fewer, none, one size changed, one
\* size missing, only the title changed
SettingsDefs ==
    << [id |-> 1, quality |-> "HDTV-1080p", title |-> "HDTV-1080p",
        minSize |-> "0", maxSize |-> "100", preferredSize |-> "50"],
       [id |-> 2, quality |-> "Bluray-1080p", title |-> "Bluray-1080p",
        minSize |-> "0", maxSize |-> "100", preferredSize |-> "95"] >>

TargetDefs ==
    LET a == [SettingsDefs[1] EXCEPT !.id = 31]
        b == [SettingsDefs[2] EXCEPT !.id = 32]
    IN {<<a, b>>, <<b, a>>, <<a>>, <<>>,
        <<a, [b EXCEPT !.preferredSize = "90"]>>,
        <<[a EXCEPT !.minSize = "5"], b>>,
        <<a, [k \in DOMAIN b \ {"maxSize"} |-> b[k]]>>,
        <<[a EXCEPT !.title = "HD TV"], b>>}

\* Settings: bob's Radarr follows alice's Radarr and holds her custom formats
\* and profiles already; the quality definitions, the live naming and media
\* management of both and bob's declared overrides vary
InitSettings ==
    \E c \in FocusedCommands,
       ref_naming \in LiveNamings(1) \ {[id |-> 1, renameMovies |-> "false",
                                         standardMovieFormat |-> "{Movie Title}"]},
       target_naming \in LiveNamings(7),
       yaml_naming \in DeclaredNamings,
       ref_mm \in {[id |-> 1, recycleBin |-> "/recycle", deleteEmptyFolders |-> "true"]},
       target_mm \in LiveMediaManagements(7),
       yaml_mm \in DeclaredMediaManagements,
       target_defs \in TargetDefs :
        /\ InitRun(c,
              [prowlarr |-> None, recyclarr |-> None,
               users |-> << [UserState("alice") EXCEPT
                                !.radarr = ServiceConfig(RadarrAlice, "key-a")],
                            [UserState("bob") EXCEPT
                                !.radarr = [ServiceConfig(RadarrBob, "key-b") EXCEPT
                                               !.naming = yaml_naming,
                                               !.media_management = yaml_mm],
                                !.reference = "alice"] >>])
        /\ servers = [u \in {RadarrAlice, RadarrBob} |->
              IF u = RadarrAlice
              THEN [RefServer(<<"x265">>, <<"HD">>) EXCEPT
                       !.qualityDefinitions = SettingsDefs,
                       !.naming = ref_naming, !.mediaManagement = ref_mm]
              ELSE TargetServer(<<"x265">>, <<"HD">>, target_defs, target_naming,
                                target_mm)]
        /\ hash_order = <<>>
        /\ docker = EmptyDict
        /\ cache = EmptyDict
        /\ prowlarr_apps = <<>>
        /\ recyclarr_file = None

SpecSettings == InitSettings /\ [][Next]_vars

\* what Prowlarr may list for one declared service: nothing, the application
\* in sync, with another url, with another key, with both different
LiveApps(username, impl, url, key) ==
    {<<>>} \cup {<<AppOf(username, impl, u, k)>> :
                    u \in {url, "http://moved:7878"}, k \in {key, "old-key"}}

\* Prowlarr applications: alice with a Radarr that is complete, lacks its key
\* or is absent and a Sonarr with or without url, bob with a Radarr; Prowlarr
\* lists an application of somebody else and any of the declared ones
InitApps ==
    \E c \in FocusedCommands,
       radarr_a \in {None, ServiceConfig(RadarrAlice, ""),
                     ServiceConfig(RadarrAlice, "key-a")},
       sonarr_a \in {ServiceConfig("", "key-s"), ServiceConfig(SonarrAlice, "key-s")},
       app_a \in LiveApps("alice", "Radarr", RadarrAlice, "key-a"),
       app_s \in {<<>>, <<AppOf("alice", "Sonarr", SonarrAlice, "key-s")>>},
       app_b \in LiveApps("bob", "Radarr", RadarrBob, "key-b") :
        /\ InitRun(c,
              [prowlarr |-> [url |-> ProwlarrUrl, api_key |-> "key-p", container |-> ""],
               recyclarr |-> None,
               users |-> << [UserState("alice") EXCEPT
                                !.radarr = radarr_a, !.sonarr = sonarr_a],
                            [UserState("bob") EXCEPT
                                !.radarr = ServiceConfig(RadarrBob, "key-b")] >>])
        /\ servers = [u \in {RadarrAlice, SonarrAlice, RadarrBob} |-> EmptyServer]
        /\ hash_order = <<>>
        /\ docker = EmptyDict
        /\ cache = EmptyDict
        /\ prowlarr_apps = WithIds(<<AppOf("zed", "Lidarr", "http://lidarr:8686", "key-z")>>
                                   \o app_b \o app_s \o app_a, 1)
        /\ recyclarr_file = None

SpecApps == InitApps /\ [][Next]_vars

(***************************************************************************)
(* api_key.py step by step: processes that call extract_api_key and        *)
(* invalidate_cache on the cache file of one configuration directory.      *)
(* Nothing locks the file between the read of _load_cache and the write of *)
(* _save_cache, so the steps of two processes interleave.                  *)
(***************************************************************************)
\* the containers the calls name
Containers == {"radarr-alice", "radarr-bob"}

\* the ApiKey element of a container's config.xml
KeyOf(container) == "key of " \o container

\* the calls one process makes at most
MaxCalls == 3

\* a write that keeps the entries the file holds and adds the writer's
SavedMerged(file, local) ==
    [x \in DOMAIN file \cup DOMAIN local |->
        IF x \in DOMAIN local THEN local[x] ELSE file[x]]

\* _save_cache(config_dir, cache): what the file holds after the write, given
\* what it held and the dict of the writer
Saved(file, local) == local

\* a process before its first call, with n calls to make
NotCalled(n) ==
    [pc |-> "idle", op |-> "", container |-> "", cache |-> EmptyDict,
     before |-> EmptyDict, key |-> "", ran |-> FALSE, prev |-> <<>>, left |-> n]

\* a process calls extract_api_key(container) or invalidate_cache(container);
\* before is the file at the call, prev the call the process made before
Call ==
    /\ \E p \in DOMAIN invocations,
          op \in {"extract_api_key", "invalidate_cache"},
          container \in Containers :
        LET i == invocations[p] IN
        /\ i.pc \in {"idle", "returned", "raised"}
        /\ i.left > 0
        /\ invocations' = [invocations EXCEPT ![p] =
              [pc |-> "load", op |-> op, container |-> container,
               cache |-> EmptyDict, before |-> cache, key |-> "", ran |-> FALSE,
               prev |-> IF i.op = "" THEN <<>> ELSE <<i.op, i.container>>,
               left |-> i.left - 1]]
    /\ UNCHANGED <<cli, doc, docker, cache, state, servers, prowlarr_apps,
                   recyclarr_file, hash_order, plan, cf_id_map, pc, idx, applied,
                   errors, success, exit_code, invoked, failed, raised, confirmed,
                   followups, calls>>

\* cache = _load_cache(config_dir), and what the call does with its dict
\* before any docker exec or write: extract_api_key returns a cached key,
\* invalidate_cache pops the container's entry
LoadCache ==
    /\ \E p \in DOMAIN invocations :
        LET i == invocations[p] IN
        /\ i.pc = "load"
        /\ invocations' = [invocations EXCEPT ![p] =
              IF i.op = "invalidate_cache"
              THEN [i EXCEPT !.cache = invalidate_cache(i.container, cache),
                             !.pc = "save"]
              ELSE IF Cached(cache, i.container) # ""
              THEN [i EXCEPT !.cache = cache,
                             !.key = Cached(cache, i.container),
                             !.pc = "returned"]
              ELSE [i EXCEPT !.cache = cache, !.pc = "docker"]]
    /\ UNCHANGED <<cli, doc, docker, cache, state, servers, prowlarr_apps,
                   recyclarr_file, hash_order, plan, cf_id_map, pc, idx, applied,
                   errors, success, exit_code, invoked, failed, raised, confirmed,
                   followups, calls>>

\* key = _docker_extract(container): raises when config.xml cannot be read or
\* holds no ApiKey, else the key goes into the dict of the process
DockerExtract ==
    /\ \E p \in DOMAIN invocations :
        LET i == invocations[p] IN
        /\ i.pc = "docker"
        /\ invocations' = [invocations EXCEPT ![p] =
              IF docker[i.container] = ""
              THEN [i EXCEPT !.ran = TRUE, !.pc = "raised"]
              ELSE [i EXCEPT !.ran = TRUE,
                             !.key = docker[i.container],
                             !.cache = Put(i.cache, i.container, docker[i.container]),
                             !.pc = "save"]]
    /\ UNCHANGED <<cli, doc, docker, cache, state, servers, prowlarr_apps,
                   recyclarr_file, hash_order, plan, cf_id_map, pc, idx, applied,
                   errors, success, exit_code, invoked, failed, raised, confirmed,
                   followups, calls>>

\* _save_cache(config_dir, cache), and the call returns
SaveCache ==
    /\ \E p \in DOMAIN invocations :
        LET i == invocations[p] IN
        /\ i.pc = "save"
        /\ cache' = Saved(cache, i.cache)
        /\ invocations' = [invocations EXCEPT ![p] = [i EXCEPT !.pc = "returned"]]
    /\ UNCHANGED <<cli, doc, docker, state, servers, prowlarr_apps,
                   recyclarr_file, hash_order, plan, cf_id_map, pc, idx, applied,
                   errors, success, exit_code, invoked, failed, raised, confirmed,
                   followups, calls>>

NextKeys ==
    \/ Call
    \/ LoadCache
    \/ DockerExtract
    \/ SaveCache

\* n processes with k calls each to make, on a cache file that holds the keys
\* of some of the containers, each container readable or not
InitKeys(n, k) ==
    /\ cli = ApplyAll
    /\ doc = [prowlarr |-> None, recyclarr |-> None, users |-> <<>>]
    /\ state = None
    /\ plan = None
    /\ cf_id_map = EmptyDict
    /\ pc = "start"
    /\ idx = 0
    /\ applied = 0
    /\ errors = 0
    /\ success = FALSE
    /\ exit_code = -1
    /\ invoked = <<>>
    /\ failed = <<>>
    /\ raised = FALSE
    /\ confirmed = FALSE
    /\ followups = {}
    /\ calls = {}
    /\ servers = EmptyDict
    /\ prowlarr_apps = <<>>
    /\ recyclarr_file = None
    /\ hash_order = <<>>
    /\ \E readable \in SUBSET Containers :
          docker = [x \in Containers |-> IF x \in readable THEN KeyOf(x) ELSE ""]
    /\ \E cached \in SUBSET Containers : cache = [x \in cached |-> KeyOf(x)]
    /\ invocations = [p \in 1..n |-> NotCalled(k)]

\* one process making its calls one after the other
InitCalls == InitKeys(1, MaxCalls)

SpecCalls == InitCalls /\ [][NextKeys]_vars

\* two processes, each making one call
InitRace == InitKeys(2, 1)

SpecRace == InitRace /\ [][NextKeys]_vars

(***************************************************************************)
(* Properties.                                                             *)
(***************************************************************************)
\* the plan is computed and no apply step has run: the services still hold
\* what the planners fetched
Planned == pc \in {"display", "confirm"}

\* the service plans of plan p, each with the tenant it belongs to
ServicePlans(p) ==
    Flatten([u \in 1..Len(p.users) |->
        [s \in 1..Len(p.users[u].services) |->
            [username |-> p.users[u].username, sp |-> p.users[u].services[s]]]])

\* the declared ServiceConfig a service plan was built for
DeclaredService(username, service_type) ==
    LET user == UserByName(state.users, username)
    IN IF service_type = "Radarr" THEN user.radarr ELSE user.sonarr

LivePaths(url) == {servers[url].rootFolders[i].path : i \in DOMAIN servers[url].rootFolders}

RootFolderActions(sp) == SelectSeq(sp.actions, LAMBDA a : a.category = "Root folder")

\* the type and the name of each action of a list
TypesAndNames(acts) == [i \in 1..Len(acts) |-> <<acts[i].type, acts[i].name>>]

\* acts is the root-folder difference of the declared list against the live
\* set: per declared path a CREATE (not live) or a NOOP (live), per live path
\* that is not declared a WARNING without an apply step, and nothing else
RootFolderDiff(acts, url, declared, live) ==
    /\ \A i \in 1..Len(declared) :
          IF declared[i] \in live
          THEN \E k \in 1..Len(acts) :
                  /\ acts[k].type = NOOP /\ acts[k].name = Quoted(declared[i])
                  /\ acts[k].execute = None
          ELSE \E k \in 1..Len(acts) :
                  /\ acts[k].type = CREATE /\ acts[k].name = Quoted(declared[i])
                  /\ acts[k].execute =
                        [op |-> "create_root_folder", client |-> url,
                         path |-> declared[i]]
    /\ \A p \in live \ Range(declared) :
          \E k \in 1..Len(acts) :
              /\ acts[k].type = WARNING /\ acts[k].name = Quoted(p)
              /\ acts[k].execute = None
    /\ Len(acts) = Len(declared) + Cardinality(live \ Range(declared))

\* no step of the run removes a root folder from a service
RootFoldersKept ==
    \A url \in DOMAIN servers : LivePaths(url) \subseteq LivePaths(url)'

\* C5 as stated: every planned service, whatever its declared list (the empty
\* one included), gets the root-folder difference, and no step removes a root
\* folder.
C5_AsStated ==
    Planned =>
        \A i \in 1..Len(ServicePlans(plan)) :
            LET e == ServicePlans(plan)[i]
                declared == DeclaredService(e.username, e.sp.service_type).root_folders
            IN RootFolderDiff(RootFolderActions(e.sp), e.sp.url, declared,
                              LivePaths(e.sp.url))

\* the root-folder part of every planned service: the difference when the
\* declared list is not empty, no action at all when it is empty
C5_Plan ==
    Planned =>
        \A i \in 1..Len(ServicePlans(plan)) :
            LET e == ServicePlans(plan)[i]
                declared == DeclaredService(e.username, e.sp.service_type).root_folders
            IN IF declared # <<>>
               THEN RootFolderDiff(RootFolderActions(e.sp), e.sp.url, declared,
                                   LivePaths(e.sp.url))
               ELSE RootFolderActions(e.sp) = <<>>

\* C5 (amended): for every planned service whose declared root-folder list is
\* not empty the plan holds a CREATE per declared path that is not live, a
\* NOOP per declared path that is live and a WARNING without apply step per
\* live path that is not declared; for an empty declared list it holds no
\* root-folder action; and no step of plan or apply removes a live root folder.
C5_RootFolders == [](C5_Plan) /\ [][RootFoldersKept]_vars

\* C5 witness: a plan with a CREATE, a NOOP and a WARNING was applied and the
\* created folder is live
C5_Witness ==
    /\ pc = "recyclarr"
    /\ applied = 1
    /\ \E i \in 1..Len(ServicePlans(plan)) :
          LET acts == RootFolderActions(ServicePlans(plan)[i].sp) IN
          /\ {acts[k].type : k \in 1..Len(acts)} = {CREATE, NOOP, WARNING}
          /\ Cardinality(LivePaths(ServicePlans(plan)[i].sp.url)) = 3

\* the undeclared live paths in the order the fetch returned them
ExtraInFetchOrder(url, declared) ==
    LET fetched == [i \in 1..Len(servers[url].rootFolders) |->
                       servers[url].rootFolders[i].path]
    IN SelectSeq(fetched, LAMBDA p : p \notin Range(declared))

\* C6: plan_root_folders emits the actions for the declared paths first, in
\* declared order, then the warnings for the undeclared live paths in the
\* order the fetch returned them.
C6_FetchOrder ==
    Planned =>
        \A i \in 1..Len(ServicePlans(plan)) :
            LET e == ServicePlans(plan)[i]
                declared == DeclaredService(e.username, e.sp.service_type).root_folders
                acts == RootFolderActions(e.sp)
                extra == ExtraInFetchOrder(e.sp.url, declared)
            IN declared # <<>> =>
                /\ Len(acts) = Len(declared) + Len(extra)
                /\ \A k \in 1..Len(declared) :
                      /\ acts[k].type \in {CREATE, NOOP}
                      /\ acts[k].name = Quoted(declared[k])
                /\ \A k \in 1..Len(extra) :
                      /\ acts[Len(declared) + k].type = WARNING
                      /\ acts[Len(declared) + k].name = Quoted(extra[k])

\* the scenario of C7: declared ["/movies", "/movies-4k"], live ["/movies", "/old"]
C7_Scenario ==
    /\ Planned
    /\ Len(state.users) = 1
    /\ state.users[1].radarr # None
    /\ state.users[1].radarr.root_folders = <<"/movies", "/movies-4k">>
    /\ ExtraInFetchOrder(state.users[1].radarr.url, <<>>) = <<"/movies", "/old">>

\* C7 as stated: CREATE "/movies-4k", NOOP "/movies", WARNING "/old", in that order
C7_AsStated ==
    C7_Scenario =>
        TypesAndNames(RootFolderActions(plan.users[1].services[1])) =
            << <<CREATE, Quoted("/movies-4k")>>, <<NOOP, Quoted("/movies")>>,
               <<WARNING, Quoted("/old")>> >>

\* C7 (amended): with declared ["/movies", "/movies-4k"] and live
\* ["/movies", "/old"] the differencer returns exactly NOOP "/movies",
\* CREATE "/movies-4k", WARNING "/old", in that order (declared order first).
C7_DeclaredOrder ==
    C7_Scenario =>
        TypesAndNames(RootFolderActions(plan.users[1].services[1])) =
            << <<NOOP, Quoted("/movies")>>, <<CREATE, Quoted("/movies-4k")>>,
               <<WARNING, Quoted("/old")>> >>

\* C7 witness: the scenario, planned
C7_Witness == C7_Scenario /\ Len(plan.users[1].services[1].actions) = 3

DownloadClientActions(sp) ==
    SelectSeq(sp.actions, LAMBDA a : a.category = "Download client")

\* the live download clients of implementation Seedr, in fetch order
LiveSeedr(url) ==
    SelectSeq(servers[url].downloadClients, LAMBDA c : c.implementation = "Seedr")

\* the four compared fields in the order of the claim, with the declared
\* value and the live value of each (the live value of an absent field is None)
SeedrFieldNames == <<"email", "password", "downloadDirectory", "deleteFromCloud">>

DeclaredSeedrValue(seedr, name) ==
    CASE name = "email" -> seedr.email
      [] name = "password" -> seedr.password
      [] name = "downloadDirectory" -> seedr.download_directory
      [] name = "deleteFromCloud" -> seedr.delete_from_cloud

LiveSeedrValue(c, name) ==
    IF "fields" \notin DOMAIN c THEN NoneValue
    ELSE LET hits == SelectSeq(c.fields, LAMBDA f : f.name = name)
         IN IF hits = <<>> THEN NoneValue ELSE hits[1].value

Differing(c, seedr) ==
    SelectSeq(SeedrFieldNames,
              LAMBDA n : LiveSeedrValue(c, n) # DeclaredSeedrValue(seedr, n))

\* C8: for every planned service of a tenant with Seedr credentials the plan
\* holds exactly one download-client action: CREATE when no live client has
\* implementation Seedr; NOOP when one exists and its email, password,
\* downloadDirectory and deleteFromCloud equal the declared values; otherwise
\* UPDATE of the live client's id whose detail names exactly the differing
\* fields in the order email, password, downloadDirectory, deleteFromCloud
\* (a password-only difference gives "password changed").
C8_DownloadClient ==
    Planned =>
        \A i \in 1..Len(ServicePlans(plan)) :
            LET e == ServicePlans(plan)[i]
                seedr == UserByName(state.users, e.username).seedr
                acts == DownloadClientActions(e.sp)
                live == LiveSeedr(e.sp.url)
            IN seedr # None =>
                /\ Len(acts) = 1
                /\ IF live = <<>>
                   THEN /\ acts[1].type = CREATE
                        /\ acts[1].execute # None
                        /\ acts[1].execute.op = "create_download_client"
                   ELSE IF Differing(live[1], seedr) = <<>>
                   THEN /\ acts[1].type = NOOP
                        /\ acts[1].execute = None
                   ELSE /\ acts[1].type = UPDATE
                        /\ acts[1].execute # None
                        /\ acts[1].execute.op = "update_download_client"
                        /\ acts[1].execute.id = live[1].id
                        /\ acts[1].detail =
                              Join(Differing(live[1], seedr), ", ") \o " changed"
                        /\ Differing(live[1], seedr) = <<"password">>
                              => acts[1].detail = "password changed"

\* C8 witness: an UPDATE is planned for a live client that differs in the
\* password and in one more field
C8_Witness ==
    /\ Planned
    /\ \E i \in 1..Len(ServicePlans(plan)) :
          LET acts == DownloadClientActions(ServicePlans(plan)[i].sp) IN
          /\ Len(acts) = 1
          /\ acts[1].type = UPDATE
          /\ acts[1].detail = "password, deleteFromCloud changed"

\* the declared service a planned service follows, or None
ReferenceOf(username, service_type) ==
    LET user == UserByName(state.users, username)
    IN IF user.reference = "" THEN None
       ELSE DeclaredService(user.reference, service_type)

FollowsReference(e) ==
    /\ ReferenceOf(e.username, e.sp.service_type) # None
    /\ ReferenceOf(e.username, e.sp.service_type).url # ""
    /\ ReferenceOf(e.username, e.sp.service_type).api_key # ""

CategoryActions(sp, category) ==
    SelectSeq(sp.actions, LAMBDA a : a.category = category)

\* C9: when planning is done and no apply step has run, the id map of every
\* planned service that follows a reference maps the id of each reference
\* custom format whose name exists in the target to the id of the target
\* custom format of that name, whether or not custom formats are missing.
C9_CfIdMap ==
    Planned =>
        \A i \in 1..Len(ServicePlans(plan)) :
            LET e == ServicePlans(plan)[i] IN
            FollowsReference(e) =>
                LET ref == ReferenceOf(e.username, e.sp.service_type)
                    ref_cfs == servers[ref.url].customFormats
                    target_cfs == servers[e.sp.url].customFormats
                IN /\ e.sp.url \in DOMAIN cf_id_map
                   /\ \A r \in DOMAIN ref_cfs, t \in DOMAIN target_cfs :
                         ref_cfs[r].name = target_cfs[t].name =>
                            /\ ref_cfs[r].id \in DOMAIN cf_id_map[e.sp.url]
                            /\ cf_id_map[e.sp.url][ref_cfs[r].id] = target_cfs[t].id

\* C9 witness: a custom-format CREATE is planned (one format is missing) and
\* the map holds the format that exists
C9_Witness ==
    /\ Planned
    /\ \E i \in 1..Len(ServicePlans(plan)) :
          LET e == ServicePlans(plan)[i]
              acts == CategoryActions(e.sp, "Custom formats")
          IN /\ FollowsReference(e)
             /\ Len(acts) = 1
             /\ acts[1].type = CREATE
             /\ e.sp.url \in DOMAIN cf_id_map
             /\ Cardinality(DOMAIN cf_id_map[e.sp.url]) = 1

\* C10: the plan of every service that follows a reference holds exactly one
\* action of category "Quality profiles": a NOOP without apply step when the
\* name of every reference profile exists in the target, otherwise one CREATE
\* whose apply step carries all reference profiles.
C10_OneProfileAction ==
    Planned =>
        \A i \in 1..Len(ServicePlans(plan)) :
            LET e == ServicePlans(plan)[i] IN
            FollowsReference(e) =>
                LET ref == ReferenceOf(e.username, e.sp.service_type)
                    ref_profiles == servers[ref.url].qualityProfiles
                    target_profiles == servers[e.sp.url].qualityProfiles
                    acts == CategoryActions(e.sp, "Quality profiles")
                IN /\ Len(acts) = 1
                   /\ IF \A r \in DOMAIN ref_profiles :
                            \E t \in DOMAIN target_profiles :
                                ref_profiles[r].name = target_profiles[t].name
                      THEN /\ acts[1].type = NOOP
                           /\ acts[1].execute = None
                      ELSE /\ acts[1].type = CREATE
                           /\ acts[1].execute # None
                           /\ acts[1].execute.op = "_sync_quality_profiles"
                           /\ acts[1].execute.ref_profiles = ref_profiles

\* C10 witness: two reference profiles are missing in the target and one
\* CREATE is planned for them
C10_Witness ==
    /\ Planned
    /\ \E i \in 1..Len(ServicePlans(plan)) :
          LET e == ServicePlans(plan)[i]
              acts == CategoryActions(e.sp, "Quality profiles")
          IN /\ FollowsReference(e)
             /\ Len(acts) = 1
             /\ acts[1].type = CREATE
             /\ acts[1].name = "2 from alice"

\* apply_plan was called and has returned or raised
ApplyPlanDone == confirmed /\ pc # "applying"

\* the positions of the actions that carry an apply step, in list order
Executable(acts) ==
    SelectSeq([i \in 1..Len(acts) |-> i], LAMBDA i : acts[i].execute # None)

\* C1: when apply_plan is done on a plan with K apply steps of which F
\* raised, every one of the K steps was invoked exactly once (whatever failed
\* before it), applied = K - F, errors = F, and no exception of a step left
\* apply_plan.
C1_EveryStepOnce ==
    ApplyPlanDone =>
        /\ invoked = Executable(all_actions(plan))
        /\ applied = Len(Executable(all_actions(plan))) - Len(failed)
        /\ errors = Len(failed)
        /\ ~raised

\* C1 witness: apply_plan returned after a step failed and a later step was
\* invoked and succeeded
C1_Witness ==
    /\ pc = "finish"
    /\ Len(invoked) >= 3
    /\ Len(failed) = 1
    /\ failed[1] = invoked[1]
    /\ applied = Len(invoked) - 1

\* the actions of the service plans of one tenant and one service type
ActionsOf(username, service_type) ==
    Flatten([i \in 1..Len(ServicePlans(plan)) |->
        IF /\ ServicePlans(plan)[i].username = username
           /\ ServicePlans(plan)[i].sp.service_type = service_type
        THEN ServicePlans(plan)[i].sp.actions ELSE <<>>])

\* the order C2 states: Prowlarr, then the tenants as declared with Radarr
\* before Sonarr, then Recyclarr
NaturalOrder ==
    (IF plan.prowlarr # None THEN plan.prowlarr.actions ELSE <<>>)
    \o Flatten([u \in 1..Len(state.users) |->
          ActionsOf(state.users[u].name, "Radarr")
          \o ActionsOf(state.users[u].name, "Sonarr")])
    \o (IF plan.recyclarr # None THEN plan.recyclarr.actions ELSE <<>>)

InvokedActions == [k \in 1..Len(invoked) |-> all_actions(plan)[invoked[k]]]

\* C2: the apply steps are invoked in the plan's natural order: the Prowlarr
\* actions, then the tenants in declaration order with Radarr before Sonarr
\* and each service's actions in list order, then the Recyclarr actions.
C2_NaturalOrder ==
    /\ pc = "applying" =>
          \A j, k \in 1..Len(invoked) : j < k => invoked[j] < invoked[k]
    /\ ApplyPlanDone =>
          InvokedActions = SelectSeq(NaturalOrder, LAMBDA a : a.execute # None)

\* C2 witness: steps of Prowlarr, of alice's Radarr and Sonarr, of bob's
\* Radarr and of Recyclarr were all invoked in one run
C2_Witness ==
    /\ pc = "finish"
    /\ \E k \in 1..Len(invoked) : InvokedActions[k].category = "App"
    /\ \A url \in {RadarrAlice, SonarrAlice, RadarrBob} :
          \E k \in 1..Len(invoked) :
              /\ "client" \in DOMAIN InvokedActions[k].execute
              /\ InvokedActions[k].execute.client = url
    /\ \E k \in 1..Len(invoked) : InvokedActions[k].execute.op = "apply_recyclarr"

\* C3 as stated: apply exits non-zero exactly when an action failed after the
\* user confirmed the plan.
C3_AsStated ==
    (pc = "exit" /\ cli.command = "apply" /\ ~cli.dry_run) =>
        (exit_code # 0 <=> (confirmed /\ failed # <<>>))

\* C3 (amended): apply_plan reports success if and only if no apply step
\* failed; once the user confirmed the plan, apply exits non-zero if and only
\* if at least one step failed; the only other non-zero exits of apply happen
\* before a plan exists (configuration load, unknown tenant, Seedr validation,
\* plan computation).
C3_SuccessAndExit ==
    /\ ApplyPlanDone /\ pc # "exit" => (success <=> failed = <<>>)
    /\ (pc = "exit" /\ confirmed) => (exit_code # 0 <=> failed # <<>>)
    /\ (pc = "exit" /\ ~confirmed /\ cli.command # "status")
          => (exit_code # 0 <=> plan = None)

\* C3 witness: a confirmed apply ended with exit code 1 after one step failed
\* and another succeeded
C3_Witness ==
    /\ pc = "exit"
    /\ confirmed
    /\ exit_code = 1
    /\ Len(failed) = 1
    /\ applied >= 1

\* every action of every sub-plan of the plan
EveryAction ==
    (IF plan.prowlarr # None THEN Range(plan.prowlarr.actions) ELSE {})
    \cup UNION {Range(ServicePlans(plan)[i].sp.actions) :
                    i \in 1..Len(ServicePlans(plan))}
    \cup (IF plan.recyclarr # None THEN Range(plan.recyclarr.actions) ELSE {})

\* C4: in every computed plan, the Recyclarr sub-plan included, a NOOP or a
\* WARNING carries no apply step and a CREATE or an UPDATE carries one.
C4_StepsByKind ==
    plan # None =>
        \A a \in EveryAction :
            /\ a.type \in ActionType
            /\ a.type \in {NOOP, WARNING} => a.execute = None
            /\ a.type \in {CREATE, UPDATE} => a.execute # None

\* C4 witness: a plan with a Recyclarr sub-plan that holds actions of all
\* four kinds
C4_Witness ==
    /\ Planned
    /\ plan.recyclarr # None
    /\ plan.prowlarr # None
    /\ {a.type : a \in EveryAction} = ActionType

ReferenceCategories ==
    <<"Custom formats", "Quality profiles", "Quality definitions",
      "Naming config", "Media management">>

ReferenceActions(sp) ==
    SelectSeq(sp.actions, LAMBDA a : a.category \in Range(ReferenceCategories))

\* the service plan of one tenant's service of one type is in the plan
HasServicePlan(username, service_type) ==
    \E i \in 1..Len(ServicePlans(plan)) :
        /\ ServicePlans(plan)[i].username = username
        /\ ServicePlans(plan)[i].sp.service_type = service_type

\* C11: a service plan holds reference-sync actions (one of each of the five
\* categories) if and only if its tenant declares a reference and the
\* referenced tenant's block of the same family has a url and an API key;
\* otherwise it holds none of them, the plan is still computed with a service
\* plan for every service of every processed tenant, and the download-client
\* action (Seedr declared) and the root-folder actions (root folders declared)
\* are planned all the same.
C11_ReferenceIff ==
    Planned =>
        /\ \A i \in 1..Len(ServicePlans(plan)) :
              LET e == ServicePlans(plan)[i]
                  user == UserByName(state.users, e.username)
                  declared == DeclaredService(e.username, e.sp.service_type)
              IN /\ IF FollowsReference(e)
                    THEN \A k \in 1..Len(ReferenceCategories) :
                            Len(CategoryActions(e.sp, ReferenceCategories[k])) = 1
                    ELSE ReferenceActions(e.sp) = <<>>
                 /\ Len(DownloadClientActions(e.sp)) = IF user.seedr # None THEN 1 ELSE 0
                 /\ declared.root_folders # <<>> => RootFolderActions(e.sp) # <<>>
        /\ \A u \in 1..Len(UsersToCheck) :
              /\ Configured(UsersToCheck[u].radarr)
                    => HasServicePlan(UsersToCheck[u].name, "Radarr")
              /\ Configured(UsersToCheck[u].sonarr)
                    => HasServicePlan(UsersToCheck[u].name, "Sonarr")

\* C11 witness: bob references alice, whose Radarr block has a url but no API
\* key: bob's Radarr plan holds the download-client and the root-folder action
\* and no reference-sync action
C11_Witness ==
    /\ Planned
    /\ \E i \in 1..Len(ServicePlans(plan)) :
          LET e == ServicePlans(plan)[i] IN
          /\ UserByName(state.users, e.username).reference = "alice"
          /\ ReferenceOf(e.username, e.sp.service_type) # None
          /\ ReferenceOf(e.username, e.sp.service_type).url # ""
          /\ ReferenceOf(e.username, e.sp.service_type).api_key = ""
          /\ ReferenceActions(e.sp) = <<>>
          /\ Len(DownloadClientActions(e.sp)) = 1
          /\ Len(RootFolderActions(e.sp)) = 1

\* the user of this name as the document declares it, and as resolved
Declared(name) == UserByName(doc.users, name)
Resolved(name) == UserByName(state.users, name)

\* the position of a tenant in the declaration order
Position(name) == CHOOSE k \in 1..Len(doc.users) : doc.users[k].name = name

\* tenant t declares a reference to a declared tenant, declares no naming
\* overrides for its Radarr, and both configure a Radarr
InheritsNaming(t) ==
    /\ Declared(t).reference \in UserNames(doc.users)
    /\ Declared(t).radarr # None
    /\ Declared(Declared(t).reference).radarr # None
    /\ DOMAIN Declared(t).radarr.naming = {}

\* C12 as stated: after resolve_state a tenant T that inherits its naming from
\* R has the naming R has at the end of the resolution, in every declaration
\* order and also when R itself has a reference.
C12_AsStated ==
    state # None =>
        \A t \in UserNames(doc.users) :
            InheritsNaming(t) =>
                Resolved(t).radarr.naming = Resolved(Declared(t).reference).radarr.naming

\* C12: after resolve_state a tenant T that inherits its naming from R has the
\* naming R had when the reference pass reached T: R's naming at the end of
\* the resolution if R is declared before T, R's declared naming if R is
\* declared after T.
C12_NamingWhenReached ==
    state # None =>
        \A t \in UserNames(doc.users) :
            InheritsNaming(t) =>
                LET r == Declared(t).reference IN
                Resolved(t).radarr.naming =
                    IF Position(r) < Position(t) THEN Resolved(r).radarr.naming
                    ELSE Declared(r).radarr.naming

\* C12 witness: carol, alice and bob are declared in this order, alice inherits
\* carol's naming and bob, reached after her, inherits what she took from carol
C12_Witness ==
    /\ state # None
    /\ InheritsNaming("bob")
    /\ InheritsNaming("alice")
    /\ Position("carol") < Position("alice")
    /\ Position("alice") < Position("bob")
    /\ Resolved("alice").radarr.naming = OwnNaming("carol")
    /\ Resolved("bob").radarr.naming = OwnNaming("carol")

\* a dict holds a value of one of the keys of another
HoldsValueOf(d, origin) ==
    \E k \in DOMAIN d \cap DOMAIN origin : d[k] = origin[k]

\* C13: when A references B and B references C, after resolve_state the naming
\* and media-management overrides of A hold nothing that C declared, in every
\* declaration order.
C13_OneHop ==
    state # None =>
        \A a \in UserNames(doc.users) :
            LET b == Declared(a).reference IN
            (b \in UserNames(doc.users) /\ Declared(b).reference \in UserNames(doc.users)) =>
                LET c == Declared(b).reference IN
                (Resolved(a).radarr # None /\ Declared(c).radarr # None) =>
                    /\ ~HoldsValueOf(Resolved(a).radarr.naming, Declared(c).radarr.naming)
                    /\ ~HoldsValueOf(Resolved(a).radarr.media_management,
                                     Declared(c).radarr.media_management)

\* some declared reference names no declared tenant
DanglingReference ==
    \E i \in 1..Len(doc.users) :
        doc.users[i].reference # "" /\ doc.users[i].reference \notin UserNames(doc.users)

\* C14: when some reference names an undeclared tenant, resolve_state fails and
\* the plan, apply and status commands end with exit code 1 right there: no
\* state is resolved, no service or Seedr call is made (only the container
\* read of an API key, which precedes the reference pass), no plan is computed
\* and no action is applied.
C14_DanglingReference ==
    (DanglingReference /\ pc # "start") =>
        /\ pc = "exit"
        /\ exit_code = 1
        /\ state = None
        /\ plan = None
        /\ calls \subseteq {"docker"}
        /\ invoked = <<>>
        /\ applied = 0
        /\ followups = {}

\* C14 witness: a run on a document with a dangling reference has ended, having
\* read bob's API key from his container
C14_Witness ==
    /\ DanglingReference
    /\ pc = "exit"
    /\ exit_code = 1
    /\ calls = {"docker"}
    /\ cli.command = "status"

\* the plan computed now, against the services as they are
PlanNow == _add_recyclarr_to_plan(compute_plan(state, cli.user), state)

\* C17: when a confirmed apply ended with no failed step, the plan computed
\* next on the same document has no CREATE and no UPDATE action.
C17_Idempotent ==
    (pc = "exit" /\ confirmed /\ failed = <<>> /\ errors = 0) =>
        /\ summary(PlanNow).creates = 0
        /\ summary(PlanNow).updates = 0

\* the plan holds a CREATE or an UPDATE of a Prowlarr application
ProwlarrHadChanges ==
    /\ plan.prowlarr # None
    /\ \E i \in 1..Len(plan.prowlarr.actions) :
          plan.prowlarr.actions[i].type \in {CREATE, UPDATE}

\* C15: a follow-up call (the indexer sync command, the regeneration of the
\* Recyclarr file) is made after a confirmed apply only if the plan held a
\* CREATE or an UPDATE of a Prowlarr application and at least one action was
\* applied.
C15_FollowUps ==
    followups # {} => (confirmed /\ ProwlarrHadChanges /\ applied > 0)

\* a tenant filter is given
Filtered == cli.user # NoneValue /\ cli.user # ""

\* the names the Prowlarr applications of one tenant have in the plan
AppNamesOf(username) == {Quoted(AppName(impl, username)) : impl \in {"Radarr", "Sonarr"}}

\* C16: with a tenant filter the plan holds Prowlarr application actions and
\* service plans of that tenant only; the application actions are decided
\* against the complete list of live applications (an application of the
\* tenant that Prowlarr lists is not created again, though other tenants'
\* applications are listed too), and the reference sync of the tenant is
\* planned from the service of the referenced tenant, which is outside the
\* filter: custom formats are to be created exactly when that service holds a
\* name the tenant's service lacks, and the creation step carries the custom
\* formats of that service.
C16_TenantFilter ==
    (Planned /\ Filtered) =>
        /\ \A u \in 1..Len(plan.users) : plan.users[u].username = cli.user
        /\ plan.prowlarr # None =>
              \A i \in 1..Len(plan.prowlarr.actions) :
                  LET a == plan.prowlarr.actions[i] IN
                  /\ a.name \in AppNamesOf(cli.user)
                  /\ a.type = CREATE <=>
                        a.name \notin {Quoted(n) : n \in NamesOf(prowlarr_apps)}
        /\ \A i \in 1..Len(ServicePlans(plan)) :
              LET e == ServicePlans(plan)[i]
                  cf == CategoryActions(e.sp, "Custom formats")
              IN IF FollowsReference(e)
                 THEN /\ Len(cf) = 1
                      /\ cf[1].type = CREATE =>
                            cf[1].execute.ref_cfs =
                                servers[ReferenceOf(e.username, e.sp.service_type).url]
                                    .customFormats
                      /\ cf[1].type = CREATE <=>
                            ~(NamesOf(servers[ReferenceOf(e.username, e.sp.service_type).url]
                                          .customFormats)
                              \subseteq NamesOf(servers[e.sp.url].customFormats))
                 ELSE cf = <<>>

\* C16 witness: a plan filtered to bob, while Prowlarr lists alice's and bob's
\* applications, holds the action of bob's application and bob's service plan
\* with custom formats to create from alice's Radarr
C16_Witness ==
    /\ Planned
    /\ cli.user = "bob"
    /\ Len(prowlarr_apps) = 3
    /\ plan.prowlarr # None
    /\ Len(plan.prowlarr.actions) = 1
    /\ plan.prowlarr.actions[1].type = NOOP
    /\ Len(state.users) = 2
    /\ Len(plan.users) = 1
    /\ \E i \in 1..Len(ServicePlans(plan)) :
          LET e == ServicePlans(plan)[i] IN
          /\ FollowsReference(e)
          /\ CategoryActions(e.sp, "Custom formats")[1].type = CREATE

\* the categories of a service plan in the order plan_service appends them
CategoryOrder ==
    <<"Download client", "Root folder", "Custom formats", "Quality profiles",
      "Quality definitions", "Naming config", "Media management">>

Rank(category) == CHOOSE k \in 1..Len(CategoryOrder) : CategoryOrder[k] = category

\* the step of one kind for one service, among the actions of the plan
IsStep(a, op, client) ==
    /\ a.execute # None
    /\ a.execute.op = op
    /\ a.execute.client = client

\* C18: in every service plan the actions come in the order download client,
\* root folders, custom formats, quality profiles, quality definitions, naming,
\* media management; and when the quality-profile step of a service is
\* invoked, the custom-format step of the same service, if the plan has one,
\* was invoked before it.
C18_CategoryOrder ==
    plan # None =>
        /\ \A i \in 1..Len(ServicePlans(plan)) :
              LET acts == ServicePlans(plan)[i].sp.actions IN
              /\ \A j \in 1..Len(acts) : acts[j].category \in Range(CategoryOrder)
              /\ \A j, k \in 1..Len(acts) :
                    j < k => Rank(acts[j].category) <= Rank(acts[k].category)
        /\ \A k \in 1..Len(invoked) :
              InvokedActions[k].execute.op = "_sync_quality_profiles" =>
                  \A n \in 1..Len(all_actions(plan)) :
                      IsStep(all_actions(plan)[n], "_sync_custom_formats",
                             InvokedActions[k].execute.client)
                          => \E j \in 1..(k - 1) : invoked[j] = n

\* C18 witness: a service plan holds an action of each of the seven
\* categories, and its custom-format step and then its quality-profile step
\* were invoked
C18_Witness ==
    /\ plan # None
    /\ \E i \in 1..Len(ServicePlans(plan)) :
          LET sp == ServicePlans(plan)[i].sp IN
          /\ \A c \in Range(CategoryOrder) : CategoryActions(sp, c) # <<>>
          /\ \E j, k \in 1..Len(invoked) :
                /\ j < k
                /\ IsStep(InvokedActions[j], "_sync_custom_formats", sp.url)
                /\ IsStep(InvokedActions[k], "_sync_quality_profiles", sp.url)

\* the apply loop is at a step of this kind, and the step is invoked
StepTaken(op) ==
    /\ pc = "applying"
    /\ idx <= Len(all_actions(plan))
    /\ all_actions(plan)[idx].execute # None
    /\ all_actions(plan)[idx].execute.op = op
    /\ invoked' = Append(invoked, idx)

IdsOf(entries) == {entries[i].id : i \in DOMAIN entries}

\* C19: the custom-format step creates reference custom formats whose names
\* the target lacks when the step runs, in reference order, and nothing else:
\* what the target holds at that moment stays as it is, also what was created
\* after planning; when the step succeeds it has created every such custom
\* format and cf_id_map maps the id of every reference custom format to the
\* id of the target custom format of the same name.
C19_CustomFormatStep ==
    [][StepTaken("_sync_custom_formats") =>
        LET e == all_actions(plan)[idx].execute
            before == servers[e.client].customFormats
            after == servers'[e.client].customFormats
            absent == SelectSeq(e.ref_cfs, LAMBDA c : c.name \notin NamesOf(before))
            new == SubSeq(after, Len(before) + 1, Len(after))
        IN /\ Len(after) >= Len(before)
           /\ SubSeq(after, 1, Len(before)) = before
           /\ Len(new) <= Len(absent)
           /\ \A k \in 1..Len(new) :
                 /\ WithoutId(new[k]) = WithoutId(absent[k])
                 /\ new[k].id \notin IdsOf(before)
           /\ applied' = applied + 1 =>
                 /\ Len(new) = Len(absent)
                 /\ \A k \in 1..Len(e.ref_cfs) :
                       /\ e.ref_cfs[k].id \in DOMAIN cf_id_map'[e.client]
                       /\ \E j \in 1..Len(after) :
                             /\ after[j].name = e.ref_cfs[k].name
                             /\ after[j].id = cf_id_map'[e.client][e.ref_cfs[k].id]
    ]_vars

\* C19 witness: the custom-format step succeeded on a target in which
\* somebody else had created one of the reference's custom formats after
\* planning: that one is there once, as it was written, and mapped, and the
\* step created the other one
C19_Witness ==
    /\ plan # None
    /\ failed = <<>>
    /\ \E k \in 1..Len(invoked) :
          IsStep(InvokedActions[k], "_sync_custom_formats", RadarrBob)
    /\ LET ref == servers[RadarrAlice].customFormats
           t == servers[RadarrBob].customFormats
       IN /\ Len(ref) = 2
          /\ Len(t) = 2
          /\ t[1].name = ref[2].name
          /\ t[1].specifications = WrittenByOther
          /\ t[2] = Put(ref[1], "id", t[1].id + 1)
          /\ cf_id_map[RadarrBob] = (ref[1].id :> t[2].id) @@ (ref[2].id :> t[1].id)

\* the payload of one reference profile: the profile without its id, the
\* format of each of its formatItems replaced by what cf_id_map m holds for it
ProfilePayload(ref_p, m) ==
    [k \in DOMAIN ref_p \ {"id"} |->
        IF k # "formatItems" THEN ref_p[k]
        ELSE [i \in 1..Len(ref_p.formatItems) |->
                [format |-> IF ref_p.formatItems[i].format \in DOMAIN m
                            THEN m[ref_p.formatItems[i].format]
                            ELSE ref_p.formatItems[i].format,
                 score |-> ref_p.formatItems[i].score]]]

\* C20: the quality-profile step writes, for a reference profile, the payload
\* with the formatItems remapped through cf_id_map: into the target profile of
\* the same name if the target holds one when the step runs (under that
\* profile's id), as a new profile otherwise; it touches nothing else, and when
\* it succeeds it has done so for every reference profile.
C20_ProfileStep ==
    [][StepTaken("_sync_quality_profiles") =>
        LET e == all_actions(plan)[idx].execute
            m == cf_id_map[e.client]
            before == servers[e.client].qualityProfiles
            after == servers'[e.client].qualityProfiles
            Ref == Range(e.ref_profiles)
        IN /\ Len(after) >= Len(before)
           /\ \A j \in 1..Len(before) :
                 \/ after[j] = before[j]
                 \/ \E r \in Ref :
                       /\ r.name = before[j].name
                       /\ after[j] = Put(ProfilePayload(r, m), "id", before[j].id)
           /\ \A j \in (Len(before) + 1)..Len(after) :
                 /\ after[j].id \notin IdsOf(before)
                 /\ \E r \in Ref :
                       /\ r.name \notin NamesOf(before)
                       /\ WithoutId(after[j]) = ProfilePayload(r, m)
           /\ Len(after) - Len(before)
                 <= Cardinality({r \in Ref : r.name \notin NamesOf(before)})
           /\ applied' = applied + 1 =>
                 \A r \in Ref :
                     IF r.name \in NamesOf(before)
                     THEN \E j \in 1..Len(before) :
                             /\ before[j].name = r.name
                             /\ after[j] = Put(ProfilePayload(r, m), "id", before[j].id)
                     ELSE \E j \in (Len(before) + 1)..Len(after) :
                             WithoutId(after[j]) = ProfilePayload(r, m)
    ]_vars

\* C20 witness: the quality-profile step succeeded on a target in which
\* somebody else had created the reference's second profile after planning:
\* that profile kept its id and place and holds the reference's payload with
\* the target's custom-format id, and the first profile was created after it
C20_Witness ==
    /\ plan # None
    /\ failed = <<>>
    /\ \E k \in 1..Len(invoked) :
          IsStep(InvokedActions[k], "_sync_quality_profiles", RadarrBob)
    /\ LET ref == servers[RadarrAlice].qualityProfiles
           t == servers[RadarrBob].qualityProfiles
           m == cf_id_map[RadarrBob]
       IN /\ Len(ref) = 2
          /\ Len(t) = 2
          /\ t[1].name = ref[2].name
          /\ t[2].name = ref[1].name
          /\ t[2].id = t[1].id + 1
          /\ ref[2].formatItems # <<>>
          /\ ref[2].formatItems[1].format \in DOMAIN m
          /\ m[ref[2].formatItems[1].format] # ref[2].formatItems[1].format
          /\ t[1] = Put(ProfilePayload(ref[2], m), "id", t[1].id)
          /\ t[2] = Put(ProfilePayload(ref[1], m), "id", t[2].id)

\* C21: every quality profile a target service holds after the executor wrote
\* it scores only custom formats of that target: the format of each of its
\* formatItems is the id of a custom format the target holds, also when the
\* custom-format step of the same service failed or completed in part.
C21_FormatIdsExist ==
    \A url \in DOMAIN cf_id_map :
        \A p \in 1..Len(servers[url].qualityProfiles) :
            LET q == servers[url].qualityProfiles[p] IN
            \A i \in 1..Len(q.formatItems) :
                q.formatItems[i].format \in IdsOf(servers[url].customFormats)

\* the declared key that overrides API key k, if the declared map is not empty
\* and holds one
Overriding(yaml, field_map, k) ==
    {j \in 1..Len(field_map) : field_map[j][2] = k /\ field_map[j][1] \in DOMAIN yaml}

\* the keys of the desired configuration and the value of each: the declared
\* override if there is one, the reference's live value otherwise
DesiredKeys(ref, yaml, field_map) ==
    DOMAIN ref \cup {field_map[j][2] : j \in {n \in 1..Len(field_map) :
                                                field_map[n][1] \in DOMAIN yaml}}

DesiredValue(ref, yaml, field_map, k) ==
    IF Overriding(yaml, field_map, k) # {}
    THEN yaml[field_map[CHOOSE j \in Overriding(yaml, field_map, k) : TRUE][1]]
    ELSE ref[k]

\* one settings action of a service plan is as C22 states, for the live
\* configurations ref and target and the declared overrides yaml
SettingsAction(acts, ref, target, yaml, field_map, keys) ==
    LET desired_keys == DesiredKeys(ref, yaml, field_map) \ {"id"}
        differ == \E k \in Range(keys) \cap desired_keys :
                     DesiredValue(ref, yaml, field_map, k) # Get(target, k)
    IN /\ Len(acts) = 1
       /\ acts[1].type = IF differ THEN UPDATE ELSE NOOP
       /\ differ =>
             /\ DOMAIN acts[1].execute.config = desired_keys \cup {"id"}
             /\ acts[1].execute.config.id = target.id
             /\ \A k \in desired_keys :
                   acts[1].execute.config[k] = DesiredValue(ref, yaml, field_map, k)
       /\ ~differ => acts[1].execute = None

\* C22: for the naming configuration and for the media-management
\* configuration of a service that follows a reference, the desired
\* configuration is the reference's live configuration with the declared
\* overrides of the allow-list laid over it; the plan holds one action, an
\* UPDATE if desired and the target's live configuration differ on a compared
\* key that desired holds and a NOOP otherwise; the UPDATE carries the desired
\* configuration under the id of the target's live configuration.
C22_Settings ==
    Planned =>
        \A i \in 1..Len(ServicePlans(plan)) :
            LET e == ServicePlans(plan)[i] IN
            FollowsReference(e) =>
                LET ref == servers[ReferenceOf(e.username, e.sp.service_type).url]
                    target == servers[e.sp.url]
                    declared == DeclaredService(e.username, e.sp.service_type)
                IN /\ SettingsAction(CategoryActions(e.sp, "Naming config"),
                                     ref.naming, target.naming, declared.naming,
                                     naming_field_map, naming_keys)
                   /\ SettingsAction(CategoryActions(e.sp, "Media management"),
                                     ref.mediaManagement, target.mediaManagement,
                                     declared.media_management,
                                     mm_field_map, mm_keys)

\* C22 witness: the live naming configurations agree on every compared key, a
\* declared override makes the difference and the UPDATE carries the target's
\* id; the media-management configurations differ on a key that is not
\* compared, next to a declared key outside the allow-list, and get a NOOP
C22_Witness ==
    /\ Planned
    /\ \E i \in 1..Len(ServicePlans(plan)) :
          LET e == ServicePlans(plan)[i]
              naming == CategoryActions(e.sp, "Naming config")
              mm == CategoryActions(e.sp, "Media management")
          IN /\ FollowsReference(e)
             /\ ~Changed(servers[RadarrAlice].naming, servers[e.sp.url].naming, naming_keys)
             /\ naming[1].type = UPDATE
             /\ naming[1].execute.config.id = servers[e.sp.url].naming.id
             /\ naming[1].execute.config.id # servers[RadarrAlice].naming.id
             /\ naming[1].execute.config.renameMovies = "false"
             /\ servers[RadarrAlice].mediaManagement # [servers[e.sp.url].mediaManagement
                                                          EXCEPT !.id = 1]
             /\ DeclaredService(e.username, "Radarr").media_management
                    = [minimum_free_space |-> "500"]
             /\ mm[1].type = NOOP

\* two quality definitions differ in one of the three sizes
SizesDiffer(rd, td) ==
    \E k \in {"minSize", "maxSize", "preferredSize"} :
        \/ (k \in DOMAIN rd) # (k \in DOMAIN td)
        \/ (k \in DOMAIN rd /\ k \in DOMAIN td /\ rd[k] # td[k])

\* C23: the quality definitions of a service that follows a reference get one
\* action: an UPDATE if the reference's list and the target's list have
\* different lengths or differ at some position in minSize, maxSize or
\* preferredSize, a NOOP otherwise; the step of the UPDATE is one request with
\* the reference's list, and after it succeeded the target holds that list.
C23_QualityDefinitions ==
    /\ Planned =>
          \A i \in 1..Len(ServicePlans(plan)) :
              LET e == ServicePlans(plan)[i] IN
              FollowsReference(e) =>
                  LET ref == servers[ReferenceOf(e.username, e.sp.service_type).url]
                                 .qualityDefinitions
                      target == servers[e.sp.url].qualityDefinitions
                      acts == CategoryActions(e.sp, "Quality definitions")
                      differ == \/ Len(ref) # Len(target)
                                \/ \E n \in 1..Len(ref) : SizesDiffer(ref[n], target[n])
                  IN /\ Len(acts) = 1
                     /\ acts[1].type = IF differ THEN UPDATE ELSE NOOP
                     /\ ~differ => acts[1].execute = None
                     /\ differ =>
                           /\ acts[1].execute.op = "update_quality_definitions"
                           /\ acts[1].execute.client = e.sp.url
                           /\ acts[1].execute.defs = ref
                           /\ Requests(acts[1].execute) = 1
    /\ plan # None =>
          \A k \in 1..Len(invoked) :
              LET a == InvokedActions[k] IN
              (a.category = "Quality definitions" /\ invoked[k] \notin Range(failed))
                  => servers[a.execute.client].qualityDefinitions = a.execute.defs

\* C23 witness: the target held as many quality definitions as the reference,
\* the UPDATE was applied and the target holds the reference's list
C23_Witness ==
    /\ plan # None
    /\ failed = <<>>
    /\ \E k \in 1..Len(invoked) :
          /\ InvokedActions[k].category = "Quality definitions"
          /\ InvokedActions[k].type = UPDATE
    /\ servers[RadarrBob].qualityDefinitions = SettingsDefs
    /\ servers[RadarrAlice].qualityDefinitions = SettingsDefs

\* the live applications of this name
LiveNamed(name) == SelectSeq(prowlarr_apps, LAMBDA a : a.name = name)

\* the value of a field of a live application
FieldValue(app, field) ==
    LET hits == SelectSeq(app.fields, LAMBDA f : f.name = field)
    IN IF hits = <<>> THEN NoneValue ELSE hits[1].value

\* the declared services with url and API key, in the order of the plan: by
\* tenant, Radarr before Sonarr
DeclaredApps ==
    Flatten([u \in 1..Len(state.users) |->
        SelectSeq(<< [impl |-> "Radarr", username |-> state.users[u].name,
                      svc |-> state.users[u].radarr],
                     [impl |-> "Sonarr", username |-> state.users[u].name,
                      svc |-> state.users[u].sonarr] >>,
                  LAMBDA d : d.svc # None /\ d.svc.url # "" /\ d.svc.api_key # "")])

\* C24: the Prowlarr plan holds exactly one action for each declared service
\* that has a url and an API key, named "<family> (<tenant>)" in quotes, and
\* none for the others: CREATE when Prowlarr lists no application of that
\* name, NOOP when it lists one whose baseUrl and apiKey equal the declared
\* values, otherwise an UPDATE of the listed application's id whose detail
\* names baseUrl, apiKey or both, as they differ.
C24_ProwlarrApps ==
    (Planned /\ ~Filtered /\ state.prowlarr # None) =>
        LET acts == IF plan.prowlarr = None THEN <<>> ELSE plan.prowlarr.actions IN
        /\ Len(acts) = Len(DeclaredApps)
        /\ \A n \in 1..Len(DeclaredApps) :
              LET d == DeclaredApps[n]
                  name == d.impl \o " (" \o d.username \o ")"
                  live == LiveNamed(name)
                  url_differs == FieldValue(live[1], "baseUrl") # d.svc.url
                  key_differs == FieldValue(live[1], "apiKey") # d.svc.api_key
              IN /\ acts[n].category = "App"
                 /\ acts[n].name = "\"" \o name \o "\""
                 /\ live = <<>> =>
                       /\ acts[n].type = CREATE
                       /\ acts[n].execute.op = "_create_app"
                 /\ (live # <<>> /\ ~url_differs /\ ~key_differs) =>
                       /\ acts[n].type = NOOP
                       /\ acts[n].execute = None
                 /\ (live # <<>> /\ (url_differs \/ key_differs)) =>
                       /\ acts[n].type = UPDATE
                       /\ acts[n].execute.op = "_update_app"
                       /\ acts[n].execute.id = live[1].id
                       /\ acts[n].detail =
                             CASE url_differs /\ key_differs -> "baseUrl, apiKey changed"
                               [] url_differs -> "baseUrl changed"
                               [] OTHER -> "apiKey changed"

\* C24 witness: alice's Radarr lacks its key and her Sonarr its url, though
\* Prowlarr lists an application for her Radarr; the plan holds the one action
\* of bob's Radarr, an UPDATE because the listed baseUrl differs
C24_Witness ==
    /\ Planned
    /\ state.prowlarr # None
    /\ DeclaredApps # <<>>
    /\ Len(state.users) = 2
    /\ state.users[1].radarr # None
    /\ LiveNamed("Radarr (alice)") # <<>>
    /\ plan.prowlarr # None
    /\ Len(plan.prowlarr.actions) = 1
    /\ plan.prowlarr.actions[1].type = UPDATE
    /\ plan.prowlarr.actions[1].name = "\"Radarr (bob)\""
    /\ plan.prowlarr.actions[1].detail = "baseUrl changed"

\* tenant t takes a map of its Radarr from its reference: it declares a
\* reference, both configure a Radarr, and the map it declares is empty
Takes(t, declared_map) ==
    /\ Declared(t).reference \in UserNames(doc.users)
    /\ Declared(Declared(t).reference).radarr # None
    /\ DOMAIN declared_map = {}

\* C25: after resolve_state a tenant that declares at least one naming
\* override holds its naming overrides exactly as declared, whatever its
\* reference declares, and likewise, independently, for its media-management
\* overrides; and the maps of a tenant change only by what the tenant takes
\* through its own reference, never by being referenced.
C25_ReplacedWholesale ==
    state # None =>
        \A t \in UserNames(doc.users) :
            Declared(t).radarr # None =>
                /\ ~Takes(t, Declared(t).radarr.naming)
                      => Resolved(t).radarr.naming = Declared(t).radarr.naming
                /\ ~Takes(t, Declared(t).radarr.media_management)
                      => Resolved(t).radarr.media_management
                            = Declared(t).radarr.media_management

\* C25 as stated: a tenant that declares at least one naming override holds
\* its naming overrides as declared, likewise for media management, and the
\* maps of every referenced tenant are after resolve_state as declared.
C25_AsStated ==
    state # None =>
        \A t \in UserNames(doc.users) :
            /\ (Declared(t).radarr # None /\ DOMAIN Declared(t).radarr.naming # {})
                  => Resolved(t).radarr.naming = Declared(t).radarr.naming
            /\ (Declared(t).radarr # None /\ DOMAIN Declared(t).radarr.media_management # {})
                  => Resolved(t).radarr.media_management
                        = Declared(t).radarr.media_management
            /\ Declared(t).reference \in UserNames(doc.users) =>
                  Resolved(Declared(t).reference).radarr
                      = Declared(Declared(t).reference).radarr

\* C25 witness: bob declares media-management overrides and no naming, alice
\* was reached before him with carol's naming and media management: bob holds
\* alice's naming and his own media management, alice and carol theirs
C25_Witness ==
    /\ state # None
    /\ Position("carol") < Position("alice")
    /\ Position("alice") < Position("bob")
    /\ Declared("carol").radarr # None
    /\ Declared("alice").radarr.naming = EmptyDict
    /\ Resolved("alice").radarr.media_management = OwnMediaManagement("carol")
    /\ Resolved("alice").radarr.naming = OwnNaming("carol")
    /\ Declared("bob").radarr.media_management # EmptyDict
    /\ Resolved("bob").radarr.media_management = Declared("bob").radarr.media_management
    /\ Resolved("bob").radarr.naming = OwnNaming("carol")
    /\ Resolved("carol").radarr = Declared("carol").radarr

\* the plan holds no CREATE and no UPDATE
NothingToDo ==
    /\ plan # None
    /\ summary(plan).creates = 0
    /\ summary(plan).updates = 0

\* a step of a run in which apply must not change anything: a dry run, no
\* confirmation given, or a plan with nothing to do
MustNotChange == cli.command = "apply" /\ (cli.dry_run \/ ~confirmed' \/ NothingToDo)

\* a step invokes the apply step of an action only in an apply that is not a
\* dry run, was confirmed, and has a plan with a CREATE or an UPDATE; the
\* confirmation is asked for after the display of the plan only, and the
\* executor starts after the confirmation only
InvokedAfterConfirm ==
    /\ invoked' # invoked =>
          /\ cli.command = "apply"
          /\ ~cli.dry_run
          /\ confirmed
          /\ plan # None
          /\ ~NothingToDo
    /\ (pc' = "confirm" /\ pc # "confirm") => pc = "display"
    /\ (pc' = "applying" /\ pc # "applying") => pc = "confirm"

\* C26 as stated: no apply step is invoked unless the plan was displayed, holds
\* a CREATE or an UPDATE and the user confirmed; in a dry run, without
\* confirmation or with nothing to do, no service is changed, no follow-up
\* call is made and no file is written, neither the Recyclarr file nor the
\* API key cache.
C26_AsStated ==
    [][/\ InvokedAfterConfirm
       /\ MustNotChange =>
             /\ servers' = servers
             /\ prowlarr_apps' = prowlarr_apps
             /\ followups' = followups
             /\ recyclarr_file' = recyclarr_file
       /\ (cli.command = "apply" /\ cli.dry_run) => cache' = cache
    ]_vars

\* C26: no apply step is invoked unless the plan was displayed, holds a CREATE
\* or an UPDATE and the user confirmed; in a dry run, without confirmation or
\* with nothing to do, no service is changed, no follow-up call is made and
\* the Recyclarr file is not written; the API key cache is written by the
\* load of the configuration only, in every run that reads a key from a
\* container.
C26_NothingUnconfirmed ==
    [][/\ InvokedAfterConfirm
       /\ MustNotChange =>
             /\ servers' = servers
             /\ prowlarr_apps' = prowlarr_apps
             /\ followups' = followups
             /\ recyclarr_file' = recyclarr_file
       /\ cache' # cache => pc = "start"
    ]_vars

\* C26 witness: a dry run ended after its plan, which holds a CREATE or an
\* UPDATE, with no apply step invoked and no follow-up call, having written
\* bob's key to the cache
C26_Witness ==
    /\ pc = "exit"
    /\ cli.command = "apply"
    /\ cli.dry_run
    /\ plan # None
    /\ ~NothingToDo
    /\ invoked = <<>>
    /\ followups = {}
    /\ cache # EmptyDict

\* the call of a process is over: it returned, or its extraction raised
Over(i) == i.pc \in {"returned", "raised"}

\* C27: in the calls one process makes one after the other, extract_api_key
\* for a container with a cached key returns that key without a docker exec
\* and leaves the file as it was; for a container without one it runs the
\* extraction, and a successful extraction returns the container's key and
\* stores it under the container, while a failed one leaves the file
\* unchanged; invalidate_cache removes the entry of its container and no
\* other, so that an extract_api_key for that container right after it runs
\* the extraction again.  The calls agree with extract_api_key as
\* resolve_state uses it.
C27_CacheCalls ==
    \A p \in DOMAIN invocations :
        LET i == invocations[p] IN
        /\ (Over(i) /\ i.op = "extract_api_key") =>
              /\ i.ran <=> Cached(i.before, i.container) = ""
              /\ ~i.ran => (/\ i.pc = "returned"
                            /\ i.key = i.before[i.container]
                            /\ cache = i.before)
              /\ (i.ran /\ i.pc = "returned") =>
                    /\ i.key = docker[i.container]
                    /\ i.key # ""
                    /\ cache = Put(i.before, i.container, i.key)
              /\ i.pc = "raised" => (docker[i.container] = "" /\ cache = i.before)
              /\ i.prev = <<"invalidate_cache", i.container>> => i.ran
              /\ extract_api_key(i.container, i.before)
                    = [ok |-> i.pc = "returned", key |-> i.key, cache |-> cache]
        /\ (Over(i) /\ i.op = "invalidate_cache") =>
              /\ i.pc = "returned"
              /\ ~i.ran
              /\ DOMAIN cache = DOMAIN i.before \ {i.container}
              /\ \A x \in DOMAIN cache : cache[x] = i.before[x]

\* C27 witness: the process invalidated the cached key of a container, then
\* extracted it again by docker exec and stored it, and the key of the other
\* container stayed in the file throughout
C27_Witness ==
    \E p \in DOMAIN invocations :
        LET i == invocations[p] IN
        /\ i.pc = "returned"
        /\ i.op = "extract_api_key"
        /\ i.prev = <<"invalidate_cache", i.container>>
        /\ i.ran
        /\ i.container \notin DOMAIN i.before
        /\ cache[i.container] = i.key
        /\ \E x \in DOMAIN i.before : x # i.container /\ x \in DOMAIN cache /\ cache[x] = i.before[x]

\* C28: every write of the cache file replaces what the file holds by the dict
\* of the writing process, which is what that process read before its docker
\* exec with its own change made to it; what another process wrote in between
\* is not looked at.
C28_WriteReplaces ==
    [][\A p \in DOMAIN invocations :
          (invocations[p].pc = "save" /\ invocations'[p].pc = "returned") =>
              cache' = invocations[p].cache]_vars

\* C28 witness: two processes each extracted the key of a container, the two
\* containers differ and the file held neither key at the two calls; both
\* calls returned their key, and the file holds one of the two keys only
C28_Witness ==
    /\ DOMAIN invocations = {1, 2}
    /\ \A p \in {1, 2} :
          /\ invocations[p].pc = "returned"
          /\ invocations[p].op = "extract_api_key"
          /\ invocations[p].before = EmptyDict
          /\ invocations[p].ran
          /\ invocations[p].key = KeyOf(invocations[p].container)
    /\ invocations[1].container # invocations[2].container
    /\ Cardinality(DOMAIN cache) = 1

=============================================================================
